---- MODULE Spec2Model ----
(***************************************************************************)
(* A model of polkadot-introspector: the in-memory records store           *)
(* (src/src/core/storage.rs) and the parachain block info                  *)
(* (src/parachain-tracer/src/parachain_block_info.rs).                     *)
(*                                                                         *)
(* Rust values are encoded as tagged tuples so that values of different    *)
(* shapes can be compared: Option<T> is None / Some(x), Result<(),E> is    *)
(* Ok / Err(msg).  A HashMap is a function whose DOMAIN is the key set, a  *)
(* HashSet is a set.  The iteration order of a HashMap is not specified by *)
(* the language: the first bucket std's iterator yields is any bucket      *)
(* (prune), and the order in which the prefixes are scanned is a hidden    *)
(* permutation that stays the same while the map is not grown (iter_order).*)
(***************************************************************************)
EXTENDS Integers, Sequences, FiniteSets, TLC

\* ---------------------------------------------------------------- bounds
\* Keys are 1..MaxKey, prefixes 1..MaxPrefix, block numbers 1..MaxBlock, and
\* the store's max_blocks is drawn from 0..MaxMaxBlocks: with fewer buckets
\* allowed than there are block numbers, inserts prune.
MaxKey == 2
MaxPrefix == 2
MaxBlock == 2
MaxMaxBlocks == 1

\* test_prune runs with max_blocks in 0..MaxTestMaxBlocks, 1..MaxPerBlock keys
\* per block and up to MaxTestBlocks blocks.
MaxTestMaxBlocks == 2
MaxPerBlock == 2
MaxTestBlocks == 4

Keys == 1..MaxKey
Prefixes == 1..MaxPrefix
Blocks == 1..MaxBlock

\* ------------------------------------------------------- Option / Result
None == <<"None">>
Some(x) == <<"Some", x>>
Unwrap(o) == o[2]
Ok == <<"Ok">>
Err(msg) == <<"Err", msg>>
IsErr(r) == r[1] = "Err"

\* --------------------------------------------------------- map helpers
EmptyMap == <<>>
MapInsert(m, k, v) == [x \in DOMAIN m \cup {k} |-> IF x = k THEN v ELSE m[x]]
MapRemove(m, ks) == [x \in DOMAIN m \ ks |-> m[x]]

\* ------------------------------------------------------- storage entries
\* SCALE encoding of a u32: four little-endian bytes.
EncodeU32(n) == << n % 256, (n \div 256) % 256, (n \div 65536) % 256, (n \div 16777216) % 256 >>

\* impl From<BlockNumber> for RecordTime
RecordTimeFrom(block_number) == [block_number |-> block_number, timestamp |-> None]

new_onchain(record_time, data) ==
    [record_source |-> "Onchain", record_time |-> record_time, data |-> EncodeU32(data)]

new_offchain(record_time, data) ==
    [record_source |-> "Offchain", record_time |-> record_time, data |-> EncodeU32(data)]

\* StorageInfo::time().block_number()
block_number(entry) == entry.record_time.block_number

\* The entries the operations are called with: one on-chain entry carrying 1
\* per block number, and an off-chain entry carrying 2 at block 1 (two different
\* entries of one block, as in test_it_works and test_duplicate).
Entries ==
    {new_onchain(RecordTimeFrom(b), 1) : b \in Blocks} \cup
    {new_offchain(RecordTimeFrom(1), 2)}

VARIABLES
    plain,        \* Option<HashedPlainRecordsStorage>: None until constructed
    prefixed,     \* Option<HashedPrefixedRecordsStorage>: None until constructed
    iter_order,   \* the order in which prefixed_records.iter() yields the prefixes
    call,         \* the last operation called: [op, args]
    ret,          \* what that operation returned
    pruned,       \* the (oldest_block, entries) bucket prune removed in that call, if any
    test,         \* test_prune's loop: [idx, per_block, total], None outside the test
    info,         \* the tracker's ParachainBlockInfo
    trackers,         \* watch_node_broadcast: para_id -> the tracker task its Sender feeds
    last_blocks,      \* watch_node_broadcast: para_id -> last relay parent number seen
    best_known_block, \* watch_node_broadcast: the highest relay parent number seen
    futures,          \* the spawned watch_node_for_parachain tasks, in spawn order
    supervisor,       \* watch_node_broadcast's position, options and event in hand
    node,             \* run_per_node's position and the follow event in hand
    update_channel,   \* run_per_node's outgoing queue (a priority channel)
    shutdown,         \* the broadcast shutdown channel as run_per_node sees it
    follow,           \* the follow subscription: events delivered, unpins, emits, and
                      \* the Initialized events whose unpin the node refused
    tracker,          \* one watch_node_for_parachain task seen from inside: its loop
    bytes,            \* the byte slice handed to TelemetryFeed::from_bytes
    connection_pool,  \* api_handler_task: url -> client
    api,              \* api_handler_task's position, the request in hand, its answers,
                      \* the requests sent on its channel and whether the senders are gone
    per_node,         \* SubxtWrapper::run_per_node's position, headers and outgoing queue
    registry,         \* the prometheus Registry: the metric names registered in it
    metrics           \* the tracker's Metrics: Metrics(None) or the registered collectors

storageVars == <<plain, prefixed, iter_order, pruned, test>>
supVars == <<trackers, last_blocks, best_known_block, futures, supervisor>>
subVars == <<node, update_channel, shutdown, follow>>
metricsVars == <<registry, metrics>>
wrapperVars == <<tracker, bytes, connection_pool, api, per_node, registry, metrics>>

vars == <<plain, prefixed, iter_order, call, ret, pruned, test, info,
          trackers, last_blocks, best_known_block, futures, supervisor,
          node, update_channel, shutdown, follow,
          tracker, bytes, connection_pool, api, per_node, registry, metrics>>

\* No parachain tracer and no chain-head subscription task exists
NoTracer ==
    /\ trackers = <<>>
    /\ last_blocks = <<>>
    /\ best_known_block = 0
    /\ futures = <<>>
    /\ supervisor = <<"None">>

NoSubscription ==
    /\ node = <<"None">>
    /\ update_channel = <<"None">>
    /\ shutdown = <<"None">>
    /\ follow = <<"None">>

\* No registry and no Metrics value exists
NoMetrics ==
    /\ registry = <<"None">>
    /\ metrics = <<"None">>

\* No tracker loop, telemetry input, API handler or legacy subscription exists
NoWrapper ==
    /\ NoMetrics
    /\ tracker = <<"None">>
    /\ bytes = <<"None">>
    /\ connection_pool = <<>>
    /\ api = <<"None">>
    /\ per_node = <<"None">>

\* ----------------------------------------------- HashedPlainRecordsStorage
\* RecordsStorage::new
PlainNew(config) ==
    [config |-> config, last_block |-> None,
     ephemeral_records |-> EmptyMap, direct_records |-> EmptyMap]

\* The block bucket after ephemeral_records.entry(b).or_insert_with(default).insert(key)
BucketInsert(ephemeral_records, b, key) ==
    MapInsert(ephemeral_records, b,
              (IF b \in DOMAIN ephemeral_records THEN ephemeral_records[b] ELSE {}) \cup {key})

\* PlainPrune with the keys of every bucket up to the one found removed from
\* direct_records, while only that bucket's mapping is dropped.
PlainPrune_OlderToo(s) ==
    IF Cardinality(DOMAIN s.ephemeral_records) > s.config.max_blocks
    THEN { [st |-> [s EXCEPT !.direct_records =
                                 MapRemove(@, UNION {s.ephemeral_records[c] :
                                                       c \in {d \in DOMAIN s.ephemeral_records : d <= b}}),
                             !.ephemeral_records = MapRemove(@, {b})],
            pruned |-> Some([oldest_block |-> b, entries |-> s.ephemeral_records[b]])] :
             b \in DOMAIN s.ephemeral_records }
    ELSE { [st |-> s, pruned |-> None] }

\* prune: when more than max_blocks buckets are populated, the bucket that
\* ephemeral_records.iter().next() yields is removed together with the keys
\* it lists.  ephemeral_records is a HashMap: any bucket can come first.
\* The result is the set of possible outcomes [st, pruned].
PlainPrune(s) ==
    IF Cardinality(DOMAIN s.ephemeral_records) > s.config.max_blocks
    THEN { [st |-> [s EXCEPT !.direct_records = MapRemove(@, s.ephemeral_records[b]),
                             !.ephemeral_records = MapRemove(@, {b})],
            pruned |-> Some([oldest_block |-> b, entries |-> s.ephemeral_records[b]])] :
             b \in DOMAIN s.ephemeral_records }
    ELSE { [st |-> s, pruned |-> None] }

\* PlainInsert with last_block recorded before the duplicate check.
PlainInsert_LastBlockFirst(s, key, entry) ==
    LET b == block_number(entry)
        s0 == [s EXCEPT !.last_block = Some(b)]
    IN  IF key \in DOMAIN s.direct_records
        THEN { [st |-> s0, ret |-> Err("duplicate key"), pruned |-> None] }
        ELSE LET s1 == [s0 EXCEPT !.direct_records = MapInsert(@, key, entry),
                                  !.ephemeral_records = BucketInsert(@, b, key)]
             IN  { [st |-> o.st, ret |-> Ok, pruned |-> o.pruned] : o \in PlainPrune(s1) }

\* insert: the possible outcomes [st, ret, pruned]
PlainInsert(s, key, entry) ==
    IF key \in DOMAIN s.direct_records
    THEN { [st |-> s, ret |-> Err("duplicate key"), pruned |-> None] }
    ELSE LET b == block_number(entry)
             s1 == [s EXCEPT !.last_block = Some(b),
                             !.direct_records = MapInsert(@, key, entry),
                             !.ephemeral_records = BucketInsert(@, b, key)]
         IN  { [st |-> o.st, ret |-> Ok, pruned |-> o.pruned] : o \in PlainPrune(s1) }

\* PlainReplace that also moves the key to the bucket of the new entry's block.
PlainReplace_Rebucket(s, key, entry) ==
    IF key \notin DOMAIN s.direct_records
    THEN [st |-> s, ret |-> None]
    ELSE [st |-> [s EXCEPT !.direct_records[key] = entry,
                           !.ephemeral_records =
                               BucketInsert([b \in DOMAIN @ |-> @[b] \ {key}],
                                            block_number(entry), key)],
          ret |-> Some(s.direct_records[key])]

\* PlainReplace that inserts the entry when the key is absent.
PlainReplace_Upsert(s, key, entry) ==
    IF key \notin DOMAIN s.direct_records
    THEN [st |-> [s EXCEPT !.direct_records = MapInsert(@, key, entry)], ret |-> None]
    ELSE [st |-> [s EXCEPT !.direct_records[key] = entry], ret |-> Some(s.direct_records[key])]

\* replace: [st, ret]
PlainReplace(s, key, entry) ==
    IF key \notin DOMAIN s.direct_records
    THEN [st |-> s, ret |-> None]
    ELSE [st |-> [s EXCEPT !.direct_records[key] = entry], ret |-> Some(s.direct_records[key])]

PlainGet(s, key) ==
    IF key \in DOMAIN s.direct_records THEN Some(s.direct_records[key]) ELSE None

PlainLen(s) == Cardinality(DOMAIN s.direct_records)

PlainKeys(s) == DOMAIN s.direct_records

\* ----------------------------------------------------- plain store actions
Call(op, args) == [op |-> op, args |-> args]

\* what a call of insert does to the store and to the record of the call
PlainInsertCall(key, entry) ==
    /\ plain # None
    /\ \E o \in PlainInsert(Unwrap(plain), key, entry) :
         /\ plain' = Some(o.st)
         /\ ret' = o.ret
         /\ pruned' = o.pruned
    /\ call' = Call("insert", <<key, entry>>)
    /\ UNCHANGED <<prefixed, iter_order, info, supVars, subVars, wrapperVars>>

PlainInsertStep(key, entry) ==
    /\ PlainInsertCall(key, entry)
    /\ UNCHANGED test

PlainReplaceStep(key, entry) ==
    /\ plain # None
    /\ LET o == PlainReplace(Unwrap(plain), key, entry)
       IN  /\ plain' = Some(o.st)
           /\ ret' = o.ret
    /\ call' = Call("replace", <<key, entry>>)
    /\ pruned' = None
    /\ UNCHANGED <<prefixed, iter_order, test, info, supVars, subVars, wrapperVars>>

PlainPruneStep ==
    /\ plain # None
    /\ \E o \in PlainPrune(Unwrap(plain)) :
         /\ plain' = Some(o.st)
         /\ pruned' = o.pruned
    /\ call' = Call("prune", <<>>)
    /\ ret' = None
    /\ UNCHANGED <<prefixed, iter_order, test, info, supVars, subVars, wrapperVars>>

NextPlain ==
    \/ \E key \in Keys, entry \in Entries : PlainInsertStep(key, entry)
    \/ \E key \in Keys, entry \in Entries : PlainReplaceStep(key, entry)
    \/ PlainPruneStep

\* -------------------------------------------- HashedPrefixedRecordsStorage
\* RecordsStorage::new
PrefixedNew(config) ==
    [config |-> config, last_block |-> None,
     ephemeral_records |-> EmptyMap, prefixed_records |-> EmptyMap]

\* The permutations of the prefixes: the orders a HashMap<P, _> can iterate in.
Orders == {o \in [1..MaxPrefix -> Prefixes] : \A i, j \in 1..MaxPrefix : o[i] = o[j] => i = j}

\* The prefixes whose map holds key, in iteration order
Hits(s, order, key) ==
    SelectSeq(order, LAMBDA p : p \in DOMAIN s.prefixed_records
                                /\ key \in DOMAIN s.prefixed_records[p])

\* RecordsStorage::insert on the prefixed store: always an error
PrefixedInsert(s, key, entry) ==
    [st |-> s, ret |-> Err("trying to insert key with no prefix to the prefixed storage")]

\* RecordsStorage::replace: the first prefix (in iteration order) that holds key
PrefixedReplace(s, order, key, entry) ==
    LET hits == Hits(s, order, key)
    IN  IF hits = <<>>
        THEN [st |-> s, ret |-> None]
        ELSE [st |-> [s EXCEPT !.prefixed_records[hits[1]][key] = entry],
              ret |-> Some(s.prefixed_records[hits[1]][key])]

\* PrefixedPrune that forgets to remove the block mapping.
PrefixedPrune_KeepsBucket(s) ==
    IF Cardinality(DOMAIN s.ephemeral_records) > s.config.max_blocks
    THEN { [st |-> [s EXCEPT !.prefixed_records =
                                 [p \in DOMAIN @ |-> MapRemove(@[p], s.ephemeral_records[b])]],
            pruned |-> Some([oldest_block |-> b, entries |-> s.ephemeral_records[b]])] :
             b \in DOMAIN s.ephemeral_records }
    ELSE { [st |-> s, pruned |-> None] }

\* prune: as on the plain store, and every key the bucket lists is removed
\* from the map of every prefix.
PrefixedPrune(s) ==
    IF Cardinality(DOMAIN s.ephemeral_records) > s.config.max_blocks
    THEN { [st |-> [s EXCEPT !.prefixed_records =
                                 [p \in DOMAIN @ |-> MapRemove(@[p], s.ephemeral_records[b])],
                             !.ephemeral_records = MapRemove(@, {b})],
            pruned |-> Some([oldest_block |-> b, entries |-> s.ephemeral_records[b]])] :
             b \in DOMAIN s.ephemeral_records }
    ELSE { [st |-> s, pruned |-> None] }

\* RecordsStorage::get: the first hit in iteration order
PrefixedGet(s, order, key) ==
    LET hits == Hits(s, order, key)
    IN  IF hits = <<>> THEN None ELSE Some(s.prefixed_records[hits[1]][key])

PrefixedLen(s) ==
    Cardinality({pk \in Prefixes \X Keys :
                   pk[1] \in DOMAIN s.prefixed_records
                   /\ pk[2] \in DOMAIN s.prefixed_records[pk[1]]})

PrefixedKeysAll(s) ==
    UNION {DOMAIN s.prefixed_records[p] : p \in DOMAIN s.prefixed_records}

\* PrefixedInsertPrefix with the duplicate check made across all prefixes.
PrefixedInsertPrefix_GlobalCheck(s, prefix, key, entry) ==
    LET direct_storage == IF prefix \in DOMAIN s.prefixed_records
                          THEN s.prefixed_records[prefix] ELSE EmptyMap
        s0 == [s EXCEPT !.prefixed_records = MapInsert(@, prefix, direct_storage)]
    IN  IF key \in PrefixedKeysAll(s)
        THEN { [st |-> s0, ret |-> Err("duplicate key"), pruned |-> None] }
        ELSE LET b == block_number(entry)
                 s1 == [s0 EXCEPT !.last_block = Some(b),
                                  !.prefixed_records[prefix] = MapInsert(@, key, entry),
                                  !.ephemeral_records = BucketInsert(@, b, key)]
             IN  { [st |-> o.st, ret |-> Ok, pruned |-> o.pruned] :
                     o \in PrefixedPrune(s1) }

\* insert_prefix: the possible outcomes [st, ret, pruned].  The map of the
\* prefix is created by entry(prefix).or_default() before the duplicate check.
PrefixedInsertPrefix(s, prefix, key, entry) ==
    LET direct_storage == IF prefix \in DOMAIN s.prefixed_records
                          THEN s.prefixed_records[prefix] ELSE EmptyMap
        s0 == [s EXCEPT !.prefixed_records = MapInsert(@, prefix, direct_storage)]
    IN  IF key \in DOMAIN direct_storage
        THEN { [st |-> s0, ret |-> Err("duplicate key"), pruned |-> None] }
        ELSE LET b == block_number(entry)
                 s1 == [s0 EXCEPT !.last_block = Some(b),
                                  !.prefixed_records[prefix] = MapInsert(@, key, entry),
                                  !.ephemeral_records = BucketInsert(@, b, key)]
             IN  { [st |-> o.st, ret |-> Ok, pruned |-> o.pruned] :
                     o \in PrefixedPrune(s1) }

PrefixedReplacePrefix(s, prefix, key, entry) ==
    IF prefix \notin DOMAIN s.prefixed_records
    THEN [st |-> s, ret |-> None]
    ELSE IF key \notin DOMAIN s.prefixed_records[prefix]
         THEN [st |-> s, ret |-> None]
         ELSE [st |-> [s EXCEPT !.prefixed_records[prefix][key] = entry],
               ret |-> Some(s.prefixed_records[prefix][key])]

PrefixedGetPrefix(s, prefix, key) ==
    IF prefix \in DOMAIN s.prefixed_records
    THEN IF key \in DOMAIN s.prefixed_records[prefix]
         THEN Some(s.prefixed_records[prefix][key]) ELSE None
    ELSE None

\* PrefixedKeys that returns the keys of every prefix.
PrefixedKeys_AnyPrefix(s, prefix) == PrefixedKeysAll(s)

\* prefixed_keys: the Vec's order is not modelled
PrefixedKeys(s, prefix) ==
    IF prefix \in DOMAIN s.prefixed_records THEN DOMAIN s.prefixed_records[prefix] ELSE {}

\* -------------------------------------------------- prefixed store actions
PrefixedInsertStep(key, entry) ==
    /\ prefixed # None
    /\ LET o == PrefixedInsert(Unwrap(prefixed), key, entry)
       IN  prefixed' = Some(o.st) /\ ret' = o.ret
    /\ call' = Call("insert", <<key, entry>>)
    /\ pruned' = None
    /\ UNCHANGED <<plain, iter_order, test, info, supVars, subVars, wrapperVars>>

PrefixedInsertPrefixStep(prefix, key, entry) ==
    /\ prefixed # None
    /\ \E o \in PrefixedInsertPrefix(Unwrap(prefixed), prefix, key, entry) :
         /\ prefixed' = Some(o.st)
         /\ ret' = o.ret
         /\ pruned' = o.pruned
    \* a new prefix may grow the table of prefixed_records and change its order
    /\ IF prefix \in DOMAIN Unwrap(prefixed).prefixed_records
       THEN iter_order' = iter_order
       ELSE iter_order' \in Orders
    /\ call' = Call("insert_prefix", <<prefix, key, entry>>)
    /\ UNCHANGED <<plain, test, info, supVars, subVars, wrapperVars>>

PrefixedReplaceStep(key, entry) ==
    /\ prefixed # None
    /\ LET o == PrefixedReplace(Unwrap(prefixed), iter_order, key, entry)
       IN  /\ prefixed' = Some(o.st)
           /\ ret' = o.ret
    /\ call' = Call("replace", <<key, entry>>)
    /\ pruned' = None
    /\ UNCHANGED <<plain, iter_order, test, info, supVars, subVars, wrapperVars>>

PrefixedReplacePrefixStep(prefix, key, entry) ==
    /\ prefixed # None
    /\ LET o == PrefixedReplacePrefix(Unwrap(prefixed), prefix, key, entry)
       IN  /\ prefixed' = Some(o.st)
           /\ ret' = o.ret
    /\ call' = Call("replace_prefix", <<prefix, key, entry>>)
    /\ pruned' = None
    /\ UNCHANGED <<plain, iter_order, test, info, supVars, subVars, wrapperVars>>

PrefixedPruneStep ==
    /\ prefixed # None
    /\ \E o \in PrefixedPrune(Unwrap(prefixed)) :
         /\ prefixed' = Some(o.st)
         /\ pruned' = o.pruned
    /\ call' = Call("prune", <<>>)
    /\ ret' = None
    /\ UNCHANGED <<plain, iter_order, test, info, supVars, subVars, wrapperVars>>

NextPrefixed ==
    \/ \E key \in Keys, entry \in Entries : PrefixedInsertStep(key, entry)
    \/ \E prefix \in Prefixes, key \in Keys, entry \in Entries :
         PrefixedInsertPrefixStep(prefix, key, entry)
    \/ \E key \in Keys, entry \in Entries : PrefixedReplaceStep(key, entry)
    \/ \E prefix \in Prefixes, key \in Keys, entry \in Entries :
         PrefixedReplacePrefixStep(prefix, key, entry)
    \/ PrefixedPruneStep

\* ------------------------------------------------------ ParachainBlockInfo
\* The counters are u32.  TLC's integers are 32-bit signed, so the model keeps
\* the arithmetic but scales the width: Width bits stand for u32's 32.
Width == 8
Modulus == 2 ^ Width

\* BlakeTwo256::hash_of: an uninterpreted injective function of its input
BlakeTwo256_hash_of(x) == <<"blake2_256", x>>

\* BackedCandidate { candidate: { descriptor, commitments }, validity_votes, .. }
Candidates ==
    { [candidate |-> [descriptor |-> d, commitments |-> c], validity_votes |-> v] :
        d \in {"d1", "d2"}, c \in {"c1", "c2"}, v \in {"v1", "v2"} }

\* The values the availability counters are set to
BitsSamples == {0, 133, 134, 200}

\* ParachainBlockInfo::default()
InfoDefault ==
    [candidate |-> None, candidate_hash |-> None, state |-> "Idle",
     bitfield_count |-> 0, max_availability_bits |-> 0, current_availability_bits |-> 0,
     assigned_core |-> None, core_occupied |-> FALSE]

is_idle(i) == i.state = "Idle"
is_backed(i) == i.state = "Backed"
is_pending(i) == i.state = "PendingAvailability"
is_included(i) == i.state = "Included"

\* maybe_reset that resets whatever the state is.
maybe_reset_always(i) ==
    [i EXCEPT !.state = "Idle", !.candidate = None, !.candidate_hash = None]

\* maybe_reset (the is_reset flag exists in test builds only)
maybe_reset(i) ==
    IF is_included(i)
    THEN [i EXCEPT !.state = "Idle", !.candidate = None, !.candidate_hash = None]
    ELSE i

set_idle(i) == [i EXCEPT !.state = "Idle"]
set_backed(i) == [i EXCEPT !.state = "Backed"]
set_pending(i) == [i EXCEPT !.state = "PendingAvailability"]
set_included(i) == [i EXCEPT !.state = "Included"]

\* set_candidate that hashes the whole backed candidate, votes included.
set_candidate_WholeCandidate(i, candidate) ==
    LET commitments_hash == BlakeTwo256_hash_of(candidate.candidate.commitments)
        candidate_hash == BlakeTwo256_hash_of(<<candidate.candidate.descriptor, commitments_hash,
                                                candidate.validity_votes>>)
    IN  [i EXCEPT !.candidate_hash = Some(candidate_hash), !.candidate = Some(candidate)]

set_candidate(i, candidate) ==
    LET commitments_hash == BlakeTwo256_hash_of(candidate.candidate.commitments)
        candidate_hash == BlakeTwo256_hash_of(<<candidate.candidate.descriptor, commitments_hash>>)
    IN  [i EXCEPT !.candidate_hash = Some(candidate_hash), !.candidate = Some(candidate)]

\* is_data_available that doubles before it divides.
is_data_available_MulFirst(i) ==
    i.current_availability_bits > ((i.max_availability_bits * 2) % Modulus) \div 3

\* unsigned arithmetic: the division truncates, the product wraps at the width
is_data_available(i) ==
    i.current_availability_bits > ((i.max_availability_bits \div 3) * 2) % Modulus

\* is_bitfield_propagation_low that does not look at the state.
is_bitfield_propagation_low_AnyState(i) ==
    /\ i.max_availability_bits > 0
    /\ i.bitfield_count <= ((i.max_availability_bits \div 3) * 2) % Modulus

is_bitfield_propagation_low(i) ==
    /\ i.max_availability_bits > 0
    /\ ~is_idle(i)
    /\ i.bitfield_count <= ((i.max_availability_bits \div 3) * 2) % Modulus

InfoStep(op, args, new) ==
    /\ info' = new
    /\ call' = Call(op, args)
    /\ ret' = None
    /\ UNCHANGED <<plain, prefixed, iter_order, pruned, test, supVars, subVars, wrapperVars>>

MaybeResetStep == InfoStep("maybe_reset", <<>>, maybe_reset(info))
SetIdleStep == InfoStep("set_idle", <<>>, set_idle(info))
SetBackedStep == InfoStep("set_backed", <<>>, set_backed(info))
SetPendingStep == InfoStep("set_pending", <<>>, set_pending(info))
SetIncludedStep == InfoStep("set_included", <<>>, set_included(info))
SetCandidateStep == \E c \in Candidates : InfoStep("set_candidate", <<c>>, set_candidate(info, c))

\* The counters are public fields, assigned by the owner of the info
SetBitfieldCountStep ==
    \E n \in BitsSamples : InfoStep("bitfield_count", <<n>>, [info EXCEPT !.bitfield_count = n])
SetMaxAvailabilityBitsStep ==
    \E n \in BitsSamples :
      InfoStep("max_availability_bits", <<n>>, [info EXCEPT !.max_availability_bits = n])
SetCurrentAvailabilityBitsStep ==
    \E n \in BitsSamples :
      InfoStep("current_availability_bits", <<n>>, [info EXCEPT !.current_availability_bits = n])

InitInfo ==
    /\ info = InfoDefault
    /\ plain = None
    /\ prefixed = None
    /\ iter_order = <<>>
    /\ call = Call("default", <<>>)
    /\ ret = None
    /\ pruned = None
    /\ test = None
    /\ NoTracer
    /\ NoSubscription
    /\ NoWrapper

NextInfo ==
    \/ MaybeResetStep
    \/ SetIdleStep
    \/ SetBackedStep
    \/ SetPendingStep
    \/ SetIncludedStep
    \/ SetCandidateStep
    \/ SetBitfieldCountStep
    \/ SetMaxAvailabilityBitsStep
    \/ SetCurrentAvailabilityBitsStep

SpecInfo == InitInfo /\ [][NextInfo]_vars

\* ------------------------------------------------- the two info predicates
\* The predicates are pure functions of the counters and the state: every
\* value of the counters at the width is an input.
U32Values == 0..(Modulus - 1)
ParachainBlockState == {"Idle", "Backed", "PendingAvailability", "Included"}

IsDataAvailableStep ==
    /\ call.op = "default"
    /\ call' = Call("is_data_available", <<>>)
    /\ ret' = Some(is_data_available(info))
    /\ UNCHANGED <<info, plain, prefixed, iter_order, pruned, test, supVars, subVars, wrapperVars>>

IsBitfieldPropagationLowStep ==
    /\ call.op = "default"
    /\ call' = Call("is_bitfield_propagation_low", <<>>)
    /\ ret' = Some(is_bitfield_propagation_low(info))
    /\ UNCHANGED <<info, plain, prefixed, iter_order, pruned, test, supVars, subVars, wrapperVars>>

InitPredicates ==
    /\ \E max \in U32Values :
         \/ \E current \in U32Values :
              info = [InfoDefault EXCEPT !.max_availability_bits = max,
                                         !.current_availability_bits = current]
         \/ \E count \in U32Values, state \in ParachainBlockState :
              info = [InfoDefault EXCEPT !.max_availability_bits = max,
                                         !.bitfield_count = count,
                                         !.state = state]
    /\ plain = None
    /\ prefixed = None
    /\ iter_order = <<>>
    /\ call = Call("default", <<>>)
    /\ ret = None
    /\ pruned = None
    /\ test = None
    /\ NoTracer
    /\ NoSubscription
    /\ NoWrapper

NextPredicates == IsDataAvailableStep \/ IsBitfieldPropagationLowStep

SpecPredicates == InitPredicates /\ [][NextPredicates]_vars

\* -------------------------------------------------------------- test_prune
\* for idx in 0..total { st.insert(idx, new_onchain((idx / per_block).into(), idx)).unwrap() }
TestPruneStep ==
    /\ test # None
    /\ Unwrap(test).idx < Unwrap(test).total
    /\ PlainInsertCall(Unwrap(test).idx,
                       new_onchain(RecordTimeFrom(Unwrap(test).idx \div Unwrap(test).per_block),
                                   Unwrap(test).idx))
    /\ ret' = Ok
    /\ test' = Some([Unwrap(test) EXCEPT !.idx = @ + 1])

InitTestPrune ==
    /\ \E max_blocks \in 0..MaxTestMaxBlocks, per_block \in 1..MaxPerBlock,
          blocks \in 1..MaxTestBlocks :
         /\ blocks > max_blocks
         /\ plain = Some(PlainNew([max_blocks |-> max_blocks]))
         /\ test = Some([idx |-> 0, per_block |-> per_block, total |-> per_block * blocks])
    /\ prefixed = None
    /\ iter_order = <<>>
    /\ call = Call("new", <<>>)
    /\ ret = None
    /\ pruned = None
    /\ info = InfoDefault
    /\ NoTracer
    /\ NoSubscription
    /\ NoWrapper

SpecTestPrune == InitTestPrune /\ [][TestPruneStep]_vars

\* ------------------------------------------------------ the records store
\* A run constructs one store, plain or prefixed, with some max_blocks, and
\* then calls its operations in any order.
InitStorage ==
    /\ \E max_blocks \in 0..MaxMaxBlocks :
         \/ plain = Some(PlainNew([max_blocks |-> max_blocks])) /\ prefixed = None
         \/ plain = None /\ prefixed = Some(PrefixedNew([max_blocks |-> max_blocks]))
    /\ iter_order \in Orders
    /\ call = Call("new", <<>>)
    /\ ret = None
    /\ pruned = None
    /\ test = None
    /\ info = InfoDefault
    /\ NoTracer
    /\ NoSubscription
    /\ NoWrapper

NextStorage == NextPlain \/ NextPrefixed

SpecStorage == InitStorage /\ [][NextStorage]_vars

\* ====================================================== priority channel
\* The two-class bounded channel of the priority-channel crate: a normal lane
\* and a high-priority lane, the receiver preferring the high-priority lane.
channel_with_capacities(normal_capacity, priority_capacity) ==
    [normal |-> <<>>, priority |-> <<>>,
     capacity |-> normal_capacity, priority_capacity |-> priority_capacity,
     sender |-> TRUE, receiver |-> TRUE]

\* Sender::send completes: there is room on the normal lane, or the receiver is gone
CanSend(ch) == ~ch.receiver \/ Len(ch.normal) < ch.capacity

\* Sender::send(msg).await once it completes
Send(ch, msg) ==
    IF ch.receiver
    THEN [ch |-> [ch EXCEPT !.normal = Append(@, msg)], res |-> Ok]
    ELSE [ch |-> ch, res |-> Err("SendError")]

\* Sender::send_priority completes
CanSendPriority(ch) == ~ch.receiver \/ Len(ch.priority) < ch.priority_capacity

SendPriority(ch, msg) ==
    IF ch.receiver
    THEN [ch |-> [ch EXCEPT !.priority = Append(@, msg)], res |-> Ok]
    ELSE [ch |-> ch, res |-> Err("SendError")]

\* Receiver::recv completes: a message is queued, or every sender is dropped
CanRecv(ch) == ch.priority # <<>> \/ ch.normal # <<>> \/ ~ch.sender

\* Receiver::recv().await once it completes: high-priority first, then normal,
\* then the closed-channel error
Recv(ch) ==
    IF ch.priority # <<>>
    THEN [ch |-> [ch EXCEPT !.priority = Tail(@)], res |-> Some(Head(ch.priority))]
    ELSE IF ch.normal # <<>>
    THEN [ch |-> [ch EXCEPT !.normal = Tail(@)], res |-> Some(Head(ch.normal))]
    ELSE [ch |-> ch, res |-> None]

\* drop(Sender) of the only sender / drop(Receiver)
DropSender(ch) == [ch EXCEPT !.sender = FALSE]
DropReceiver(ch) == [ch EXCEPT !.receiver = FALSE]

\* ======================================================= parachain tracer
MaxPara == 2
MaxRelayBlock == 3
MaxStall == 1
MaxTasks == 3
MaxUpdates == 3
NormalCapacity == 2
PriorityCapacity == 1

ParaIds == 1..MaxPara
RelayBlocks == 1..MaxRelayBlock
SessionIndices == {1}

\* CollectorUpdateEvent
NewHead(para_id, relay_parent_number) == <<"NewHead", para_id, relay_parent_number>>
NewSession(idx) == <<"NewSession", idx>>
Termination == <<"Termination">>

\* ------------------------------------------- watch_node_for_parachain
\* The task spawned for para_id with the receiving side of its channel.  sent
\* is the history of what was sent on each lane of the channel.
watch_node_for_parachain(para_id, rx) ==
    [para_id |-> para_id, from_collector |-> rx, pc |-> "recv",
     handled |-> <<>>, summaries |-> 0,
     sent |-> <<>>, sent_priority |-> <<>>]

\* A tracker loop in which Termination does not break.
TrackerRecv_KeepsGoing(t) ==
    /\ t \in DOMAIN futures
    /\ futures[t].pc = "recv"
    /\ CanRecv(futures[t].from_collector)
    /\ LET r == Recv(futures[t].from_collector)
       IN  /\ futures' =
                [futures EXCEPT
                   ![t].from_collector = r.ch,
                   ![t].handled = IF r.res = None THEN @ ELSE Append(@, Unwrap(r.res)),
                   ![t].pc = IF r.res = None THEN "summary" ELSE "recv"]
           /\ call' = Call("recv", <<t>>)
           /\ ret' = r.res
    /\ UNCHANGED <<trackers, last_blocks, best_known_block, supervisor>>
    /\ UNCHANGED <<storageVars, info, subVars, wrapperVars>>

\* A tracker loop that also breaks on NewSession.
TrackerRecv_BreaksOnSession(t) ==
    /\ t \in DOMAIN futures
    /\ futures[t].pc = "recv"
    /\ CanRecv(futures[t].from_collector)
    /\ LET r == Recv(futures[t].from_collector)
       IN  /\ futures' =
                [futures EXCEPT
                   ![t].from_collector = r.ch,
                   ![t].handled = IF r.res = None THEN @ ELSE Append(@, Unwrap(r.res)),
                   ![t].pc = IF r.res = None \/ Unwrap(r.res)[1] # "NewHead"
                             THEN "summary" ELSE "recv"]
           /\ call' = Call("recv", <<t>>)
           /\ ret' = r.res
    /\ UNCHANGED <<trackers, last_blocks, best_known_block, supervisor>>
    /\ UNCHANGED <<storageVars, info, subVars, wrapperVars>>

\* from_collector.recv().await and the match on its result
TrackerRecv(t) ==
    /\ t \in DOMAIN futures
    /\ futures[t].pc = "recv"
    /\ CanRecv(futures[t].from_collector)
    /\ LET r == Recv(futures[t].from_collector)
       IN  /\ futures' =
                [futures EXCEPT
                   ![t].from_collector = r.ch,
                   ![t].handled = IF r.res = None THEN @ ELSE Append(@, Unwrap(r.res)),
                   ![t].pc = IF r.res = None \/ r.res = Some(Termination)
                             THEN "summary" ELSE "recv"]
           /\ call' = Call("recv", <<t>>)
           /\ ret' = r.res
    /\ UNCHANGED <<trackers, last_blocks, best_known_block, supervisor>>
    /\ UNCHANGED <<storageVars, info, subVars, wrapperVars>>

\* tracker.summary() after the loop; the task ends and drops its receiver
TrackerSummary(t) ==
    /\ t \in DOMAIN futures
    /\ futures[t].pc = "summary"
    /\ futures' = [futures EXCEPT ![t].summaries = @ + 1,
                                  ![t].pc = "done",
                                  ![t].from_collector = DropReceiver(@)]
    /\ call' = Call("summary", <<t>>)
    /\ ret' = None
    /\ UNCHANGED <<trackers, last_blocks, best_known_block, supervisor>>
    /\ UNCHANGED <<storageVars, info, subVars, wrapperVars>>

\* ------------------------------------------------------- evict_stalled
\* max of last_blocks.values(), 0 for an empty map
MaxBlockOf(lb) ==
    IF DOMAIN lb = {} THEN 0
    ELSE CHOOSE m \in {lb[p] : p \in DOMAIN lb} : \A p \in DOMAIN lb : lb[p] <= m

\* evict_stalled that also evicts a parachain stalled for exactly max_stall.
evict_stalled_AtStall(tr, lb, max_stall) ==
    LET max_block == MaxBlockOf(lb)
        to_evict == {p \in DOMAIN lb : (max_block - lb[p]) % Modulus >= max_stall}
    IN  [trackers |-> MapRemove(tr, to_evict), last_blocks |-> MapRemove(lb, to_evict)]

\* evict_stalled that tolerates one more block of stall.
evict_stalled_Late(tr, lb, max_stall) ==
    LET max_block == MaxBlockOf(lb)
        to_evict == {p \in DOMAIN lb : (max_block - lb[p]) % Modulus > max_stall + 1}
    IN  [trackers |-> MapRemove(tr, to_evict), last_blocks |-> MapRemove(lb, to_evict)]

\* evict_stalled that drops the sender and keeps the last_blocks entry.
evict_stalled_KeepsLastBlock(tr, lb, max_stall) ==
    LET max_block == MaxBlockOf(lb)
        to_evict == {p \in DOMAIN lb : (max_block - lb[p]) % Modulus > max_stall}
    IN  [trackers |-> MapRemove(tr, to_evict), last_blocks |-> lb]

\* evict_stalled(trackers, last_blocks, max_stall): the two maps afterwards
evict_stalled(tr, lb, max_stall) ==
    LET max_block == MaxBlockOf(lb)
        to_evict == {p \in DOMAIN lb : (max_block - lb[p]) % Modulus > max_stall}
    IN  [trackers |-> MapRemove(tr, to_evict), last_blocks |-> MapRemove(lb, to_evict)]

\* ------------------------------------------------ watch_node_broadcast
\* The orders in which trackers.values_mut() can yield the senders
TrackerOrders(tr) ==
    {o \in [1..Cardinality(DOMAIN tr) -> DOMAIN tr] :
       \A i, j \in DOMAIN o : i # j => o[i] # o[j]}

SupStep(op, args) ==
    /\ call' = Call(op, args)
    /\ ret' = None
    /\ UNCHANGED <<storageVars, info, subVars, wrapperVars>>

\* NewHead received: trackers.entry(para_id).or_insert_with(spawn a tracker);
\* the task then waits in to_tracker.send(..).await
WatchNewHead(para_id, relay_parent_number) ==
    /\ supervisor.pc = "select"
    /\ supervisor.updates < MaxUpdates
    /\ IF para_id \in DOMAIN trackers
       THEN UNCHANGED <<trackers, futures>>
       ELSE /\ Len(futures) < MaxTasks
            /\ futures' = Append(futures,
                                 watch_node_for_parachain(
                                     para_id,
                                     channel_with_capacities(NormalCapacity, PriorityCapacity)))
            /\ trackers' = MapInsert(trackers, para_id, Len(futures) + 1)
    /\ supervisor' = [supervisor EXCEPT !.pc = "send_head",
                                        !.new_head = Some(NewHead(para_id, relay_parent_number)),
                                        !.updates = @ + 1]
    /\ UNCHANGED <<last_blocks, best_known_block>>
    /\ SupStep("recv_NewHead", <<para_id, relay_parent_number>>)

\* the send completes (unwrap), last_blocks is updated and, when the head
\* raises best_known_block, the stalled parachains are evicted
WatchForwardNewHead ==
    /\ supervisor.pc = "send_head"
    /\ LET new_head == Unwrap(supervisor.new_head)
           para_id == new_head[2]
           last_known_block == new_head[3]
           t == trackers[para_id]
           s == Send(futures[t].from_collector, new_head)
           lb == MapInsert(last_blocks, para_id, last_known_block)
           e == evict_stalled(trackers, lb, supervisor.max_stall)
       IN  /\ CanSend(futures[t].from_collector)
           /\ IF s.res # Ok
              THEN /\ supervisor' = [supervisor EXCEPT !.pc = "panicked", !.new_head = None]
                   /\ UNCHANGED <<trackers, last_blocks, best_known_block, futures>>
              ELSE /\ supervisor' = [supervisor EXCEPT !.pc = "select", !.new_head = None]
                   /\ IF last_known_block > best_known_block
                      THEN /\ best_known_block' = last_known_block
                           /\ trackers' = e.trackers
                           /\ last_blocks' = e.last_blocks
                           /\ futures' =
                                [u \in DOMAIN futures |->
                                   LET f == IF u = t
                                            THEN [futures[u] EXCEPT !.from_collector = s.ch,
                                                                    !.sent = Append(@, new_head)]
                                            ELSE futures[u]
                                   IN  IF \E p \in DOMAIN trackers \ DOMAIN e.trackers :
                                            trackers[p] = u
                                       THEN [f EXCEPT !.from_collector = DropSender(@)]
                                       ELSE f]
                      ELSE /\ last_blocks' = lb
                           /\ futures' = [futures EXCEPT ![t].from_collector = s.ch,
                                                         ![t].sent = Append(@, new_head)]
                           /\ UNCHANGED <<trackers, best_known_block>>
           /\ SupStep("NewHead", <<para_id, last_known_block, last_known_block > best_known_block>>)

\* A fan-out that reaches the first tracker only.
WatchNewSession_FirstOnly(idx) ==
    /\ supervisor.pc = "select"
    /\ supervisor.updates < MaxUpdates
    /\ \E o \in TrackerOrders(trackers) :
         supervisor' = [supervisor EXCEPT !.pc = IF o = <<>> THEN "select" ELSE "send_session",
                                          !.pending = IF o = <<>> THEN o ELSE <<Head(o)>>,
                                          !.new_head = Some(NewSession(idx)),
                                          !.updates = @ + 1]
    /\ UNCHANGED <<trackers, last_blocks, best_known_block, futures>>
    /\ SupStep("recv_NewSession", <<idx>>)

\* NewSession received: the loop over trackers.values_mut() starts
WatchNewSession(idx) ==
    /\ supervisor.pc = "select"
    /\ supervisor.updates < MaxUpdates
    /\ \E o \in TrackerOrders(trackers) :
         supervisor' = [supervisor EXCEPT !.pc = IF o = <<>> THEN "select" ELSE "send_session",
                                          !.pending = o,
                                          !.new_head = Some(NewSession(idx)),
                                          !.updates = @ + 1]
    /\ UNCHANGED <<trackers, last_blocks, best_known_block, futures>>
    /\ SupStep("recv_NewSession", <<idx>>)

\* one to_tracker.send(NewSession(idx)).await.unwrap() of that loop completes
WatchForwardNewSession ==
    /\ supervisor.pc = "send_session"
    /\ LET t == trackers[Head(supervisor.pending)]
           msg == Unwrap(supervisor.new_head)
           s == Send(futures[t].from_collector, msg)
       IN  /\ CanSend(futures[t].from_collector)
           /\ IF s.res # Ok
              THEN /\ supervisor' = [supervisor EXCEPT !.pc = "panicked"]
                   /\ UNCHANGED futures
              ELSE /\ supervisor' =
                        [supervisor EXCEPT !.pending = Tail(@),
                                           !.pc = IF Tail(supervisor.pending) = <<>>
                                                  THEN "select" ELSE "send_session"]
                   /\ futures' = [futures EXCEPT ![t].from_collector = s.ch,
                                                 ![t].sent = Append(@, msg)]
           /\ SupStep("NewSession", <<Head(supervisor.pending)>>)
    /\ UNCHANGED <<trackers, last_blocks, best_known_block>>

\* A supervisor that breaks out of the loop and keeps the senders.
WatchTermination_KeepsSenders ==
    /\ supervisor.pc = "select"
    /\ supervisor' = [supervisor EXCEPT !.pc = "join"]
    /\ UNCHANGED <<trackers, last_blocks, best_known_block, futures>>
    /\ SupStep("Termination", <<>>)

\* Termination received, or the source closed: break, then trackers.clear()
WatchTermination ==
    /\ supervisor.pc = "select"
    /\ supervisor' = [supervisor EXCEPT !.pc = "join"]
    /\ trackers' = <<>>
    /\ futures' = [u \in DOMAIN futures |->
                     IF \E p \in DOMAIN trackers : trackers[p] = u
                     THEN [futures[u] EXCEPT !.from_collector = DropSender(@)]
                     ELSE futures[u]]
    /\ UNCHANGED <<last_blocks, best_known_block>>
    /\ SupStep("Termination", <<>>)

\* The `Some(_) = futures.next()` arm: a tracker task that has ended is taken
\* out of the FuturesUnordered
WatchReap(t) ==
    /\ supervisor.pc = "select"
    /\ t \in DOMAIN futures \ supervisor.reaped
    /\ futures[t].pc = "done"
    /\ supervisor' = [supervisor EXCEPT !.reaped = @ \cup {t}]
    /\ UNCHANGED <<trackers, last_blocks, best_known_block, futures>>
    /\ SupStep("reap", <<t>>)

\* future::try_join_all(futures).await completes: every future still in the
\* FuturesUnordered has ended
WatchJoin ==
    /\ supervisor.pc = "join"
    /\ \A u \in DOMAIN futures \ supervisor.reaped : futures[u].pc = "done"
    /\ supervisor' = [supervisor EXCEPT !.pc = "done"]
    /\ UNCHANGED <<trackers, last_blocks, best_known_block, futures>>
    /\ SupStep("join", <<>>)

\* ------------------------------------- trackers fed by the collector
\* Without --all each tracker's channel comes from
\* collector.subscribe_parachain_updates(para_id): the collector sends heads
\* on the normal lane and session changes and its termination on the
\* high-priority lane, and drops the sender when it ends.
CollectorSend(t, msg) ==
    /\ supervisor.pc = "direct"
    /\ supervisor.updates < MaxUpdates
    /\ t \in DOMAIN futures
    /\ futures[t].from_collector.sender
    /\ futures[t].from_collector.receiver
    /\ IF msg[1] = "NewHead"
       THEN /\ Len(futures[t].from_collector.normal) < futures[t].from_collector.capacity
            /\ futures' = [futures EXCEPT ![t].from_collector = Send(@, msg).ch,
                                          ![t].sent = Append(@, msg)]
       ELSE /\ Len(futures[t].from_collector.priority) < futures[t].from_collector.priority_capacity
            /\ futures' = [futures EXCEPT ![t].from_collector = SendPriority(@, msg).ch,
                                          ![t].sent_priority = Append(@, msg)]
    /\ supervisor' = [supervisor EXCEPT !.updates = @ + 1]
    /\ UNCHANGED <<trackers, last_blocks, best_known_block>>
    /\ SupStep("collector_send", <<t, msg>>)

CollectorDrop(t) ==
    /\ supervisor.pc = "direct"
    /\ t \in DOMAIN futures
    /\ futures[t].from_collector.sender
    /\ futures' = [futures EXCEPT ![t].from_collector = DropSender(@)]
    /\ UNCHANGED <<trackers, last_blocks, best_known_block, supervisor>>
    /\ SupStep("collector_drop", <<t>>)

\* ParachainTracer::run: with --all the broadcast supervisor, otherwise one
\* tracker per --para-id
InitTracer ==
    /\ \E max_stall \in 0..MaxStall :
         \/ /\ supervisor = [pc |-> "select", max_stall |-> max_stall, new_head |-> None,
                             pending |-> <<>>, updates |-> 0, reaped |-> {}]
            /\ futures = <<>>
         \/ /\ supervisor = [pc |-> "direct", max_stall |-> max_stall, new_head |-> None,
                             pending |-> <<>>, updates |-> 0, reaped |-> {}]
            /\ futures = [i \in 1..1 |->
                            watch_node_for_parachain(
                                i, channel_with_capacities(NormalCapacity, PriorityCapacity))]
    /\ trackers = <<>>
    /\ last_blocks = <<>>
    /\ best_known_block = 0
    /\ call = Call("run", <<>>)
    /\ ret = None
    /\ plain = None
    /\ prefixed = None
    /\ iter_order = <<>>
    /\ pruned = None
    /\ test = None
    /\ info = InfoDefault
    /\ NoSubscription
    /\ NoWrapper

Updates == {NewHead(1, n) : n \in RelayBlocks} \cup {NewSession(i) : i \in SessionIndices}
             \cup {Termination}

NextTracer ==
    \/ \E para_id \in ParaIds, n \in RelayBlocks : WatchNewHead(para_id, n)
    \/ WatchForwardNewHead
    \/ \E idx \in SessionIndices : WatchNewSession(idx)
    \/ WatchForwardNewSession
    \/ WatchTermination
    \/ \E t \in 1..MaxTasks : WatchReap(t)
    \/ WatchJoin
    \/ \E t \in 1..MaxTasks, msg \in Updates : CollectorSend(t, msg)
    \/ \E t \in 1..MaxTasks : CollectorDrop(t)
    \/ \E t \in 1..MaxTasks : TrackerRecv(t)
    \/ \E t \in 1..MaxTasks : TrackerSummary(t)

SpecTracer == InitTracer /\ [][NextTracer]_vars

\* The scheduler runs every task that can make progress
SpecTracerFair == SpecTracer /\ \A t \in 1..MaxTasks : WF_vars(TrackerRecv(t) \/ TrackerSummary(t))

\* ... and the supervisor task itself once its join can complete
SpecSupervisorFair == SpecTracerFair /\ WF_vars(WatchJoin)

\* ================================================ chain-head subscription
MaxMsgQueueSize == 2
MaxFollowEvents == 2
MaxHash == 2

Hashes == 1..MaxHash

\* channel(size): both lanes of the priority channel get the same capacity
channel(size) == channel_with_capacities(size, size)

\* ChainHeadEvent
NewBestHead(hash) == <<"NewBestHead", hash>>
NewFinalizedHead(hash) == <<"NewFinalizedHead", hash>>
Heartbeat == <<"Heartbeat">>

\* FollowEvent, as far as run_per_node reads it
Initialized(finalized_block_hash) == <<"Initialized", finalized_block_hash>>
NewBlock == <<"NewBlock">>
BestBlockChanged(best_block_hash) == <<"BestBlockChanged", best_block_hash>>
Finalized(finalized_block_hashes, pruned_block_hashes) ==
    <<"Finalized", finalized_block_hashes, pruned_block_hashes>>
Stop == <<"Stop">>

HashLists == {<<>>} \cup {<<h>> : h \in Hashes} \cup {<<1, 2>>, <<2, 1>>}
PrunedLists == {<<>>} \cup {<<h>> : h \in Hashes}

FollowEvents ==
    {Initialized(h) : h \in Hashes} \cup {NewBlock} \cup {BestBlockChanged(h) : h \in Hashes}
      \cup {Finalized(f, p) : f \in HashLists, p \in PrunedLists} \cup {Stop}

\* What sub.next().await yields when the subscription fails: Some(Err(e)) or None
StreamFailures == {Some(Err("subscription")), None}

\* One step of the task: the record of the step and the frame
NodeStep(op, args, result) ==
    /\ call' = Call(op, args)
    /\ ret' = result
    /\ UNCHANGED <<storageVars, info, supVars, wrapperVars>>

\* let mut shutdown_rx = shutdown_tx.subscribe(): the first thing the spawned task does
NodeStart ==
    /\ node.pc = "start"
    /\ node' = [node EXCEPT !.pc = "subscribe"]
    /\ shutdown' = [shutdown EXCEPT !.subscribed = TRUE]
    /\ UNCHANGED <<update_channel, follow>>
    /\ NodeStep("subscribe_shutdown", <<>>, None)

\* executor.get_chain_head_subscription(&url).await: Err exits the process
NodeSubscribe(result) ==
    /\ node.pc = "subscribe"
    /\ node' = [node EXCEPT !.pc = IF result = Ok THEN "select" ELSE "exited"]
    /\ UNCHANGED <<update_channel, shutdown, follow>>
    /\ NodeStep("get_chain_head_subscription", <<>>, result)

\* A match in which Finalized goes straight to the unpin loop.
AfterEvent_UnpinOnly(event) ==
    CASE event[1] = "Initialized" -> "unpin_init"
      [] event[1] = "NewBlock" -> "select"
      [] event[1] = "BestBlockChanged" -> "send_best"
      [] event[1] = "Finalized" ->
           IF event[2] \o event[3] # <<>> THEN "unpin" ELSE "select"
      [] event[1] = "Stop" -> "returned"

\* Where the match on a follow event leaves the task
AfterEvent(event) ==
    CASE event[1] = "Initialized" -> "unpin_init"
      [] event[1] = "NewBlock" -> "select"
      [] event[1] = "BestBlockChanged" -> "send_best"
      [] event[1] = "Finalized" ->
           IF event[2] # <<>> THEN "send_finalized"
           ELSE IF event[3] # <<>> THEN "unpin" ELSE "select"
      [] event[1] = "Stop" -> "returned"

\* the arm `message = sub.next()` with a stream error or the end of the stream
NodeNextFailed(message) ==
    /\ node.pc = "select"
    /\ message \in StreamFailures
    /\ node' = [node EXCEPT !.pc = "exited"]
    /\ UNCHANGED <<update_channel, shutdown, follow>>
    /\ NodeStep("next", <<>>, message)

\* A Stop arm that exits the process like a stream failure.
NodeNext_StopExits(event) ==
    /\ node.pc = "select"
    /\ Len(follow.delivered) < MaxFollowEvents
    /\ node' = [node EXCEPT !.pc = IF event = Stop THEN "exited" ELSE AfterEvent(event),
                            !.event = Some(event), !.i = 1]
    /\ follow' = [follow EXCEPT !.delivered = Append(@, event)]
    /\ UNCHANGED <<update_channel, shutdown>>
    /\ NodeStep("next", <<>>, Some(event))

\* the arm `message = sub.next()` with Some(Ok(event)): the match on the event
NodeNext(event) ==
    /\ node.pc = "select"
    /\ Len(follow.delivered) < MaxFollowEvents
    /\ node' = [node EXCEPT !.pc = AfterEvent(event), !.event = Some(event), !.i = 1]
    /\ follow' = [follow EXCEPT !.delivered = Append(@, event)]
    /\ UNCHANGED <<update_channel, shutdown>>
    /\ NodeStep("next", <<>>, Some(event))

\* An Initialized arm that ends the task when the unpin fails.
NodeUnpinInit_StopsOnError(result) ==
    /\ node.pc = "unpin_init"
    /\ node' = [node EXCEPT !.pc = IF result = Ok THEN "select" ELSE "returned"]
    /\ follow' = [follow EXCEPT
                    !.log = Append(@, <<"unpin", Len(follow.delivered), Unwrap(node.event)[2]>>),
                    !.errors = IF IsErr(result) THEN @ \cup {Len(follow.delivered)} ELSE @]
    /\ UNCHANGED <<update_channel, shutdown>>
    /\ NodeStep("unpin", <<Unwrap(node.event)[2]>>, result)

\* Initialized: unpin_chain_head(init.finalized_block_hash); a failure is logged
NodeUnpinInit(result) ==
    /\ node.pc = "unpin_init"
    /\ node' = [node EXCEPT !.pc = "select"]
    /\ follow' = [follow EXCEPT
                    !.log = Append(@, <<"unpin", Len(follow.delivered), Unwrap(node.event)[2]>>),
                    !.errors = IF IsErr(result) THEN @ \cup {Len(follow.delivered)} ELSE @]
    /\ UNCHANGED <<update_channel, shutdown>>
    /\ NodeStep("unpin", <<Unwrap(node.event)[2]>>, result)

\* A BestBlockChanged arm that announces the hash as finalized.
NodeSendBest_AsFinalized ==
    /\ node.pc = "send_best"
    /\ CanSend(update_channel)
    /\ LET msg == NewFinalizedHead(Unwrap(node.event)[2])
           s == Send(update_channel, msg)
       IN  /\ update_channel' = s.ch
           /\ node' = [node EXCEPT !.pc = IF s.res = Ok THEN "select" ELSE "returned"]
           /\ follow' = IF s.res = Ok
                        THEN [follow EXCEPT
                                !.log = Append(@, <<"emit", Len(follow.delivered), msg>>)]
                        ELSE follow
           /\ NodeStep("send", <<msg>>, s.res)
    /\ UNCHANGED shutdown

\* BestBlockChanged: update_channel.send(NewBestHead(hash)).await completes
NodeSendBest ==
    /\ node.pc = "send_best"
    /\ CanSend(update_channel)
    /\ LET msg == NewBestHead(Unwrap(node.event)[2])
           s == Send(update_channel, msg)
       IN  /\ update_channel' = s.ch
           /\ node' = [node EXCEPT !.pc = IF s.res = Ok THEN "select" ELSE "returned"]
           /\ follow' = IF s.res = Ok
                        THEN [follow EXCEPT
                                !.log = Append(@, <<"emit", Len(follow.delivered), msg>>)]
                        ELSE follow
           /\ NodeStep("send", <<msg>>, s.res)
    /\ UNCHANGED shutdown

\* Finalized, first loop: one update_channel.send(NewFinalizedHead(hash)).await completes
NodeSendFinalized ==
    /\ node.pc = "send_finalized"
    /\ CanSend(update_channel)
    /\ LET event == Unwrap(node.event)
           msg == NewFinalizedHead(event[2][node.i])
           s == Send(update_channel, msg)
       IN  /\ update_channel' = s.ch
           /\ node' = IF s.res # Ok THEN [node EXCEPT !.pc = "returned"]
                      ELSE IF node.i < Len(event[2]) THEN [node EXCEPT !.i = @ + 1]
                      ELSE [node EXCEPT !.pc = "unpin", !.i = 1]
           /\ follow' = IF s.res = Ok
                        THEN [follow EXCEPT
                                !.log = Append(@, <<"emit", Len(follow.delivered), msg>>)]
                        ELSE follow
           /\ NodeStep("send", <<msg>>, s.res)
    /\ UNCHANGED shutdown

\* Finalized, second loop: one unpin_chain_head over finalized ++ pruned; a
\* failure is logged
NodeUnpin(result) ==
    /\ node.pc = "unpin"
    /\ LET event == Unwrap(node.event)
           hashes == event[2] \o event[3]
       IN  /\ node' = IF node.i < Len(hashes) THEN [node EXCEPT !.i = @ + 1]
                      ELSE [node EXCEPT !.pc = "select"]
           /\ follow' = [follow EXCEPT
                           !.log = Append(@, <<"unpin", Len(follow.delivered), hashes[node.i]>>)]
           /\ NodeStep("unpin", <<hashes[node.i]>>, result)
    /\ UNCHANGED <<update_channel, shutdown>>

\* the arm `_ = shutdown_rx.recv()`: a signal sent after the subscription
NodeShutdown ==
    /\ node.pc = "select"
    /\ shutdown.pending
    /\ node' = [node EXCEPT !.pc = "returned"]
    /\ shutdown' = [shutdown EXCEPT !.pending = FALSE]
    /\ UNCHANGED <<update_channel, follow>>
    /\ NodeStep("shutdown", <<>>, None)

\* the arm `_ = heartbeat_periodic.tick()`
NodeTick ==
    /\ node.pc = "select"
    /\ node' = [node EXCEPT !.pc = "send_heartbeat"]
    /\ UNCHANGED <<update_channel, shutdown, follow>>
    /\ NodeStep("tick", <<>>, None)

\* update_channel.send(Heartbeat).await completes
NodeSendHeartbeat ==
    /\ node.pc = "send_heartbeat"
    /\ CanSend(update_channel)
    /\ LET s == Send(update_channel, Heartbeat)
       IN  /\ update_channel' = s.ch
           /\ node' = [node EXCEPT !.pc = IF s.res = Ok THEN "select" ELSE "returned"]
           /\ NodeStep("send", <<Heartbeat>>, s.res)
    /\ UNCHANGED <<shutdown, follow>>

\* shutdown_tx.send(()): only the receivers subscribed by now see the signal
ShutdownSend ==
    /\ ~shutdown.sent
    /\ node.pc # "exited"
    /\ shutdown' = [shutdown EXCEPT !.sent = TRUE, !.pending = shutdown.subscribed]
    /\ UNCHANGED <<node, update_channel, follow>>
    /\ NodeStep("shutdown_tx.send", <<>>, None)

\* the consumer takes the next event of the queue
ConsumerRecv ==
    /\ node.pc # "exited"
    /\ update_channel.receiver
    /\ update_channel.priority # <<>> \/ update_channel.normal # <<>>
    /\ update_channel' = Recv(update_channel).ch
    /\ UNCHANGED <<node, shutdown, follow>>
    /\ NodeStep("consumer_recv", <<>>, Recv(update_channel).res)

\* the consumer ends and drops its receiver
ConsumerDrop ==
    /\ node.pc # "exited"
    /\ update_channel.receiver
    /\ update_channel' = DropReceiver(update_channel)
    /\ UNCHANGED <<node, shutdown, follow>>
    /\ NodeStep("consumer_drop", <<>>, None)

\* run_per_consumer has spawned the task; it has not run yet
InitSubscription ==
    /\ node = [pc |-> "start", event |-> None, i |-> 1]
    /\ update_channel = channel(MaxMsgQueueSize)
    /\ shutdown = [sent |-> FALSE, subscribed |-> FALSE, pending |-> FALSE]
    /\ follow = [delivered |-> <<>>, log |-> <<>>, errors |-> {}]
    /\ call = Call("spawn", <<>>)
    /\ ret = None
    /\ plain = None
    /\ prefixed = None
    /\ iter_order = <<>>
    /\ pruned = None
    /\ test = None
    /\ info = InfoDefault
    /\ NoTracer
    /\ NoWrapper

\* The steps of the task itself that need nothing from the node or the consumer
NodeTask ==
    \/ NodeStart
    \/ NodeSendBest
    \/ NodeSendFinalized
    \/ NodeShutdown
    \/ NodeTick
    \/ NodeSendHeartbeat

NextSubscription ==
    \/ NodeStart
    \/ \E result \in {Ok, Err("subscribe")} : NodeSubscribe(result)
    \/ \E message \in StreamFailures : NodeNextFailed(message)
    \/ \E event \in FollowEvents : NodeNext(event)
    \/ \E result \in {Ok, Err("unpin")} : NodeUnpinInit(result)
    \/ NodeSendBest
    \/ NodeSendFinalized
    \/ \E result \in {Ok, Err("unpin")} : NodeUnpin(result)
    \/ NodeShutdown
    \/ NodeTick
    \/ NodeSendHeartbeat
    \/ ShutdownSend
    \/ ConsumerRecv
    \/ ConsumerDrop

SpecSubscription == InitSubscription /\ [][NextSubscription]_vars

\* The scheduler runs the task whenever it can proceed, the RPC calls it
\* awaits complete, and select! does not pass over a ready shutdown arm for ever
SpecSubscriptionFair ==
    /\ SpecSubscription
    /\ WF_vars(NodeTask)
    /\ WF_vars(\E result \in {Ok, Err("subscribe")} : NodeSubscribe(result))
    /\ WF_vars(\E result \in {Ok, Err("unpin")} : NodeUnpinInit(result) \/ NodeUnpin(result))
    /\ SF_vars(NodeShutdown)

\* ============================================ the tracker loop, fork by fork
MaxForks == 2
MaxTrackerEvents == 2

\* No records store exists and the block info is untouched
NoStore ==
    /\ plain = None
    /\ prefixed = None
    /\ iter_order = <<>>
    /\ pruned = None
    /\ test = None
    /\ info = InfoDefault

\* new_head.relay_parent_hashes: the relay forks of one head, repeats allowed
RelayParentHashes == UNION {[1..n -> Hashes] : n \in 0..MaxForks}

\* NewHeadEvent as the tracker reads it
NewHeadEvent(relay_parent_number, relay_parent_hashes) ==
    [relay_parent_number |-> relay_parent_number,
     relay_parent_hashes |-> relay_parent_hashes]

\* CollectorUpdateEvent::NewHead(new_head)
NewHeadOf(new_head) == <<"NewHead", new_head>>

\* what from_collector.recv().await gives the loop
UpdateEvents ==
    {NewHeadOf(NewHeadEvent(n, hs)) : n \in 1..2, hs \in RelayParentHashes}
      \cup {NewSession(idx) : idx \in SessionIndices}
      \cup {Termination}
RecvResults == {Some(e) : e \in UpdateEvents} \cup {None}

InjectResults == {Ok, Err("inject_block")}
ProgressResults == {None, Some("progress")}

\* process_tracker_update that resets the state after a failed inject_block too.
process_tracker_update_ResetOnError(relay_hash, relay_parent_number, is_cli, result, progress) ==
    <<<<"inject_block", relay_hash, relay_parent_number>>>> \o
    IF result = Ok
    THEN <<<<"progress">>>> \o
         (IF progress # None /\ is_cli THEN <<<<"println", Unwrap(progress)>>>> ELSE <<>>) \o
         <<<<"maybe_reset_state">>>>
    ELSE <<<<"error", relay_hash>>, <<"maybe_reset_state">>>>

\* process_tracker_update: the calls it makes on the tracker and its output,
\* in order, given what inject_block and progress return
process_tracker_update(relay_hash, relay_parent_number, is_cli, result, progress) ==
    <<<<"inject_block", relay_hash, relay_parent_number>>>> \o
    IF result = Ok
    THEN <<<<"progress">>>> \o
         (IF progress # None /\ is_cli THEN <<<<"println", Unwrap(progress)>>>> ELSE <<>>) \o
         <<<<"maybe_reset_state">>>>
    ELSE <<<<"error", relay_hash>>>>

\* The calls cs, made while the k-th received event is handled, added to the log
Logged(log, k, cs) == log \o [j \in 1..Len(cs) |-> <<k, cs[j]>>]

LoopStep(op, args, result) ==
    /\ call' = Call(op, args)
    /\ ret' = result
    /\ UNCHANGED <<storageVars, info, supVars, subVars, bytes, connection_pool, api, per_node, metricsVars>>

\* from_collector.recv().await and the match on its result, up to the first
\* await inside the arm
LoopRecv(message) ==
    /\ tracker.pc = "recv"
    /\ (message # None /\ message # Some(Termination)) => Len(tracker.received) < MaxTrackerEvents
    /\ LET k == Len(tracker.received) + 1
           e == Unwrap(message)
       IN  tracker' =
             IF message = None
             THEN [tracker EXCEPT !.pc = "summary"]
             ELSE IF e = Termination
             THEN [tracker EXCEPT !.pc = "summary", !.received = Append(@, e)]
             ELSE IF e[1] = "NewSession"
             THEN [tracker EXCEPT !.received = Append(@, e),
                                  !.log = Logged(@, k, <<<<"new_session", e[2]>>>>)]
             ELSE [tracker EXCEPT !.received = Append(@, e),
                                  !.i = 1,
                                  !.pc = IF e[2].relay_parent_hashes = <<>>
                                         THEN "recv" ELSE "process"]
    /\ LoopStep("recv", <<>>, message)

\* one turn of `for relay_fork in &new_head.relay_parent_hashes`
LoopProcess(result, progress) ==
    /\ tracker.pc = "process"
    /\ LET k == Len(tracker.received)
           new_head == tracker.received[k][2]
           relay_fork == new_head.relay_parent_hashes[tracker.i]
       IN  /\ tracker' =
                [tracker EXCEPT
                   !.log = Logged(@, k, process_tracker_update(relay_fork,
                                                               new_head.relay_parent_number,
                                                               tracker.is_cli, result, progress)),
                   !.i = @ + 1,
                   !.pc = IF tracker.i = Len(new_head.relay_parent_hashes)
                          THEN "recv" ELSE "process"]
           /\ LoopStep("process_tracker_update", <<k, tracker.i, relay_fork>>, result)

\* tracker.summary() after the loop, then the task ends
LoopSummary ==
    /\ tracker.pc = "summary"
    /\ tracker' = [tracker EXCEPT !.pc = "done", !.summaries = @ + 1]
    /\ LoopStep("summary", <<>>, None)

InitTrackerLoop ==
    /\ \E is_cli \in BOOLEAN :
         tracker = [pc |-> "recv", is_cli |-> is_cli, received |-> <<>>, i |-> 1,
                    log |-> <<>>, summaries |-> 0]
    /\ call = Call("spawn", <<>>)
    /\ ret = None
    /\ bytes = None
    /\ connection_pool = <<>>
    /\ api = None
    /\ per_node = None
    /\ NoStore
    /\ NoMetrics
    /\ NoTracer
    /\ NoSubscription

NextTrackerLoop ==
    \/ \E message \in RecvResults : LoopRecv(message)
    \/ \E result \in InjectResults, progress \in ProgressResults : LoopProcess(result, progress)
    \/ LoopSummary

SpecTrackerLoop == InitTrackerLoop /\ [][NextTrackerLoop]_vars

\* ================================================= telemetry feed decoder
MaxElements == 4

\* Result::Ok carrying a value
OkOf(x) == <<"Ok", x>>

\* JSON values
JNum(n) == <<"num", n>>
JFloat(x) == <<"float", x>>
JStr(s) == <<"str", s>>
JNull == <<"null">>
JArr(xs) == <<"arr", xs>>
JObj == <<"obj">>

\* The strings that are the hex form of a 32-byte hash ("0x00" stands for
\* 0x followed by 64 zeros)
HexHashes == {"0x00"}

\* The types the decoder asks serde_json for
T_u8 == <<"u8">>
T_usize == <<"usize">>
T_u64 == <<"u64">>
T_f32 == <<"f32">>
T_f64 == <<"f64">>
T_String == <<"String">>
T_H256 == <<"H256">>
T_Struct == <<"Struct">>
Option(T) == <<"Option", T>>
Tuple(ts) == <<"Tuple", ts>>
Vec(T) == <<"Vec", T>>

\* serde_json accepts the JSON value v for the type T: unsigned integers take
\* non-negative integers in range, floats take any number, a tuple takes an
\* array of exactly its length, an Option takes null or its content
RECURSIVE HasShape(_, _)
HasShape(T, v) ==
    CASE T[1] = "u8" -> v[1] = "num" /\ v[2] \in 0..255
      [] T[1] \in {"usize", "u64"} -> v[1] = "num" /\ v[2] >= 0
      [] T[1] \in {"f32", "f64"} -> v[1] \in {"num", "float"}
      [] T[1] = "String" -> v[1] = "str"
      [] T[1] = "H256" -> v[1] = "str" /\ v[2] \in HexHashes
      [] T[1] = "Struct" -> v[1] = "obj"
      [] T[1] = "Option" -> v[1] = "null" \/ HasShape(T[2], v)
      [] T[1] = "Tuple" ->
           /\ v[1] = "arr"
           /\ Len(v[2]) = Len(T[2])
           /\ \A i \in DOMAIN T[2] : HasShape(T[2][i], v[2][i])
      [] T[1] = "Vec" -> v[1] = "arr" /\ \A i \in DOMAIN v[2] : HasShape(T[2], v[2][i])

\* The Rust value serde_json builds from v for the type T
RECURSIVE Value(_, _)
Value(T, v) ==
    CASE T[1] \in {"u8", "usize", "u64"} -> v[2]
      [] T[1] \in {"f32", "f64"} -> <<"float", v[2]>>
      [] T[1] = "String" -> v[2]
      [] T[1] = "H256" -> <<"H256", v[2]>>
      [] T[1] = "Struct" -> <<"struct">>
      [] T[1] = "Option" -> IF v[1] = "null" THEN None ELSE Some(Value(T[2], v))
      [] T[1] = "Tuple" -> [i \in DOMAIN T[2] |-> Value(T[2][i], v[2][i])]
      [] T[1] = "Vec" -> [i \in DOMAIN v[2] |-> Value(T[2], v[2][i])]

\* A &RawValue: the text of one element of the outer array, and the JSON
\* value that text parses to
RawValue(text, json) == [text |-> text, json |-> json]

\* serde_json::from_str::<T>(raw.get())
from_str(T, raw) ==
    IF HasShape(T, raw.json) THEN OkOf(Value(T, raw.json)) ELSE Err("serde_json")

\* BlockDetails with the two times taken from each other's position.
block_details_TimesSwapped(height, hash, block_time, block_timestamp, propagation_time) ==
    [block |-> [hash |-> hash, height |-> height],
     block_time |-> block_timestamp,
     block_timestamp |-> block_time,
     propagation_time |-> propagation_time]

\* BlockDetails { block: Block { hash, height }, block_time, block_timestamp,
\* propagation_time } from the payload's (height, hash, ..) tuple
block_details(height, hash, block_time, block_timestamp, propagation_time) ==
    [block |-> [hash |-> hash, height |-> height],
     block_time |-> block_time,
     block_timestamp |-> block_timestamp,
     propagation_time |-> propagation_time]

T_BlockDetails == Tuple(<<T_u64, T_H256, T_u64, T_u64, Option(T_u64)>>)
T_NodeStats == Tuple(<<T_u64, T_u64>>)
T_NodeHardware == Tuple(<<Vec(T_f64), Vec(T_f64), Vec(T_f64)>>)
T_AddedNode ==
    Tuple(<<T_usize,
            Tuple(<<T_String, T_String, T_String, Option(T_String), Option(T_String),
                    Option(T_String), Option(T_Struct), Option(T_Struct)>>),
            T_NodeStats,
            Tuple(<<Vec(T_f32)>>),
            T_NodeHardware,
            T_BlockDetails,
            Tuple(<<T_f32, T_f32, T_String>>),
            Option(T_u64)>>)

\* One arm of decode: deserialize the payload as T (`?` on failure) and build
\* the message
Arm(T, raw_payload, Build(_)) ==
    LET r == from_str(T, raw_payload)
    IN  IF IsErr(r) THEN r ELSE OkOf(Build(r[2]))

\* TelemetryFeed::decode(action, raw_payload)
decode(action, raw_payload) ==
    CASE action = 0 ->
           Arm(T_usize, raw_payload, LAMBDA version : [variant |-> "Version", version |-> version])
      [] action = 1 ->
           Arm(Tuple(<<T_u64, T_u64, Option(T_u64)>>), raw_payload,
               LAMBDA t : [variant |-> "BestBlock", block_number |-> t[1], timestamp |-> t[2],
                           avg_block_time |-> t[3]])
      [] action = 2 ->
           Arm(Tuple(<<T_u64, T_H256>>), raw_payload,
               LAMBDA t : [variant |-> "BestFinalized", block_number |-> t[1],
                           block_hash |-> t[2]])
      [] action = 3 ->
           Arm(T_AddedNode, raw_payload,
               LAMBDA t : [variant |-> "AddedNode",
                           node_id |-> t[1],
                           details |-> [name |-> t[2][1], implementation |-> t[2][2],
                                        version |-> t[2][3], validator |-> t[2][4],
                                        network_id |-> t[2][5], ip |-> t[2][6],
                                        sysinfo |-> t[2][7]],
                           stats |-> [peers |-> t[3][1], txcount |-> t[3][2]],
                           io |-> [used_state_cache_size |-> t[4][1]],
                           hardware |-> [upload |-> t[5][1], download |-> t[5][2],
                                         chart_stamps |-> t[5][3]],
                           block_details |-> block_details(t[6][1], t[6][2], t[6][3],
                                                           t[6][4], t[6][5]),
                           location |-> [lat |-> t[7][1], long |-> t[7][2], city |-> t[7][3]],
                           startup_time |-> t[8],
                           hwbench |-> t[2][8]])
      [] action = 4 ->
           Arm(T_usize, raw_payload, LAMBDA node_id : [variant |-> "RemovedNode", node_id |-> node_id])
      [] action = 5 ->
           Arm(Tuple(<<T_usize, T_f32, T_f32, T_String>>), raw_payload,
               LAMBDA t : [variant |-> "LocatedNode", node_id |-> t[1], lat |-> t[2],
                           long |-> t[3], city |-> t[4]])
      [] action = 6 ->
           Arm(Tuple(<<T_usize, T_BlockDetails>>), raw_payload,
               LAMBDA t : [variant |-> "ImportedBlock", node_id |-> t[1],
                           block_details |-> block_details(t[2][1], t[2][2], t[2][3],
                                                           t[2][4], t[2][5])])
      [] action = 7 ->
           Arm(Tuple(<<T_usize, T_u64, T_H256>>), raw_payload,
               LAMBDA t : [variant |-> "FinalizedBlock", node_id |-> t[1],
                           block_number |-> t[2], block_hash |-> t[3]])
      [] action = 8 ->
           Arm(Tuple(<<T_usize, T_NodeStats>>), raw_payload,
               LAMBDA t : [variant |-> "NodeStatsUpdate", node_id |-> t[1],
                           stats |-> [peers |-> t[2][1], txcount |-> t[2][2]]])
      [] action = 9 ->
           Arm(Tuple(<<T_usize, T_NodeHardware>>), raw_payload,
               LAMBDA t : [variant |-> "Hardware", node_id |-> t[1],
                           hardware |-> [upload |-> t[2][1], download |-> t[2][2],
                                         chart_stamps |-> t[2][3]]])
      [] action = 10 ->
           Arm(T_u64, raw_payload, LAMBDA time : [variant |-> "TimeSync", time |-> time])
      [] action = 11 ->
           Arm(Tuple(<<T_String, T_H256, T_usize>>), raw_payload,
               LAMBDA t : [variant |-> "AddedChain", name |-> t[1], genesis_hash |-> t[2],
                           node_count |-> t[3]])
      [] action = 12 ->
           Arm(T_H256, raw_payload,
               LAMBDA genesis_hash : [variant |-> "RemovedChain", genesis_hash |-> genesis_hash])
      [] action = 13 ->
           Arm(T_H256, raw_payload,
               LAMBDA genesis_hash : [variant |-> "SubscribedTo", genesis_hash |-> genesis_hash])
      [] action = 14 ->
           Arm(T_H256, raw_payload,
               LAMBDA genesis_hash : [variant |-> "UnsubscribedFrom",
                                      genesis_hash |-> genesis_hash])
      [] action = 15 ->
           Arm(T_String, raw_payload, LAMBDA msg : [variant |-> "Pong", msg |-> msg])
      [] action = 20 ->
           Arm(T_usize, raw_payload, LAMBDA node_id : [variant |-> "StaleNode", node_id |-> node_id])
      [] OTHER ->
           OkOf([variant |-> "UnknownValue", action |-> action, value |-> raw_payload.text])

\* from_bytes that leaves out the pairs it cannot decode.
from_bytes_SkipsBad(b) ==
    IF b[1] # "arr"
    THEN Err("serde_json")
    ELSE LET v == b[2]
             msg(i) == LET action == from_str(T_u8, v[2 * i - 1])
                       IN  IF IsErr(action) THEN action ELSE decode(action[2], v[2 * i])
             good == SelectSeq([i \in 1..(Len(v) \div 2) |-> msg(i)], LAMBDA r : ~IsErr(r))
         IN  OkOf([i \in DOMAIN good |-> good[i][2]])

\* TelemetryFeed::from_bytes: the outer array as raw elements, then one
\* (action, payload) pair per chunks_exact(2) chunk; the first failure returns
\* the error and drops the messages collected so far
from_bytes(b) ==
    IF b[1] # "arr"
    THEN Err("serde_json")
    ELSE LET v == b[2]
             msg(i) == LET action == from_str(T_u8, v[2 * i - 1])
                       IN  IF IsErr(action) THEN action ELSE decode(action[2], v[2 * i])
             chunks == 1..(Len(v) \div 2)
         IN  IF \E i \in chunks : IsErr(msg(i))
             THEN msg(CHOOSE i \in chunks : IsErr(msg(i)) /\ \A j \in 1..(i - 1) : ~IsErr(msg(j)))
             ELSE OkOf([i \in chunks |-> msg(i)[2]])

\* The elements found at the action positions: every known code, unknown
\* codes inside and outside u8, and values that are not integers
ActionValues ==
    {RawValue(ToString(n), JNum(n)) : n \in (0..15) \cup {20, 21, 42, 255, 256, -1}}
      \cup {RawValue("\"1\"", JStr("1")), RawValue("1.5", JFloat("1.5"))}

\* The elements found at the payload positions ("added_node" abbreviates the
\* text of the AddedNode payload)
PayloadValues ==
    { RawValue("32", JNum(32)),
      RawValue("-1", JNum(-1)),
      RawValue("\"pong\"", JStr("pong")),
      RawValue("\"0x00\"", JStr("0x00")),
      RawValue("[14,16,59]", JArr(<<JNum(14), JNum(16), JNum(59)>>)),
      RawValue("[14,16,null]", JArr(<<JNum(14), JNum(16), JNull>>)),
      RawValue("[14,16]", JArr(<<JNum(14), JNum(16)>>)),
      RawValue("[14,16,59,1]", JArr(<<JNum(14), JNum(16), JNum(59), JNum(1)>>)),
      RawValue("[14,\"0x00\"]", JArr(<<JNum(14), JStr("0x00")>>)),
      RawValue("added_node",
               JArr(<<JNum(2324),
                      JArr(<<JStr("literate-burn-3334"), JStr("Parity Polkadot"),
                             JStr("0.8.30"), JNull, JStr("12D3"), JNull, JNull, JObj>>),
                      JArr(<<JNum(1), JNum(0)>>),
                      JArr(<<JArr(<<JNum(51), JNum(51)>>)>>),
                      JArr(<<JArr(<<JFloat("5865.8125")>>), JArr(<<JFloat("103230.375")>>),
                             JArr(<<JFloat("1679673031643.2812")>>)>>),
                      JArr(<<JNum(63), JStr("0x00"), JNum(0), JNum(16), JNull>>),
                      JArr(<<JFloat("50.0804"), JFloat("14.5045"), JStr("Prague")>>),
                      JNum(16)>>)),
      RawValue("[1560,35.6893,139.6899,\"Tokyo\"]",
               JArr(<<JNum(1560), JFloat("35.6893"), JFloat("139.6899"), JStr("Tokyo")>>)),
      RawValue("[297,[11,\"0x00\",60,16,233]]",
               JArr(<<JNum(297),
                      JArr(<<JNum(11), JStr("0x00"), JNum(60), JNum(16), JNum(233)>>)>>)),
      RawValue("[92,12,\"0x00\"]", JArr(<<JNum(92), JNum(12), JStr("0x00")>>)),
      RawValue("[1645,[8,0]]", JArr(<<JNum(1645), JArr(<<JNum(8), JNum(0)>>)>>)),
      RawValue("[514,[[10,5],[12,13],[16,16]]]",
               JArr(<<JNum(514),
                      JArr(<<JArr(<<JNum(10), JNum(5)>>), JArr(<<JNum(12), JNum(13)>>),
                             JArr(<<JNum(16), JNum(16)>>)>>)>>)),
      RawValue("[\"Tick 558\",\"0x00\",2]", JArr(<<JStr("Tick 558"), JStr("0x00"), JNum(2)>>)),
      RawValue("[\"0x00\", 1]", JArr(<<JStr("0x00"), JNum(1)>>)),
      RawValue("[\"0x00\",1]", JArr(<<JStr("0x00"), JNum(1)>>)) }

\* The byte slices: text that is not JSON, JSON that is not an array, and
\* arrays of up to max elements, actions and payloads alternating
ByteSlices(max) ==
    {<<"malformed">>, JNum(32), JObj}
      \cup {JArr(s) : s \in UNION {{f \in [1..n -> ActionValues \cup PayloadValues] :
                                      \A i \in 1..n : f[i] \in IF i % 2 = 1 THEN ActionValues
                                                                          ELSE PayloadValues}
                                   : n \in 0..max}}

FromBytesStep ==
    /\ call.op = "input"
    /\ call' = Call("from_bytes", <<>>)
    /\ ret' = from_bytes(bytes)
    /\ UNCHANGED <<storageVars, info, supVars, subVars, wrapperVars>>

InitTelemetry ==
    /\ bytes \in ByteSlices(MaxElements)
    /\ call = Call("input", <<>>)
    /\ ret = None
    /\ tracker = None
    /\ connection_pool = <<>>
    /\ api = None
    /\ per_node = None
    /\ NoStore
    /\ NoMetrics
    /\ NoTracer
    /\ NoSubscription

NextTelemetry == FromBytesStep

SpecTelemetry == InitTelemetry /\ [][NextTelemetry]_vars

\* ===================================================== SubxtWrapper (core.rs)
MaxUrl == 2
MaxRequests == 3
MaxApiQueue == 2
RETRY_COUNT == 3

Urls == 1..MaxUrl
RequestTypes == {"GetBlockTimestamp", "GetHead"}
Requests == [url : Urls, request_type : RequestTypes]

\* What a subxt call on a client returns, and Error::InternalError
InternalError == Err("InternalError")
Responses == {OkOf("Response"), Err("SubxtError")}

\* ClientBuilder::new().set_url(url).build().await
BuildResults == {Ok, Err("Error connecting to substrate node")}

ApiStep(op, args, result) ==
    /\ call' = Call(op, args)
    /\ ret' = result
    /\ UNCHANGED <<storageVars, info, supVars, subVars, tracker, bytes, per_node, metricsVars>>

\* The requests sent on to_api and not yet received, oldest first
ApiQueue == SubSeq(api.sent, api.requests + 1, Len(api.sent))

\* RequestExecutor::get_block_timestamp / get_block_head: a request with a
\* fresh oneshot sender is sent on to_api; the send waits while the channel
\* holds MaxApiQueue requests
ApiSend(request) ==
    /\ ~api.closed
    /\ Len(api.sent) < MaxRequests
    /\ Len(ApiQueue) < MaxApiQueue
    /\ api' = [api EXCEPT !.sent = Append(@, request)]
    /\ UNCHANGED connection_pool
    /\ ApiStep("send", <<request>>, None)

\* The consumer drops EventConsumerInit.to_api and every clone of it
ApiDrop ==
    /\ ~api.closed
    /\ api' = [api EXCEPT !.closed = TRUE]
    /\ UNCHANGED connection_pool
    /\ ApiStep("drop", <<>>, None)

\* An api_handler_task that opens a client for every request.
ApiRecv_AlwaysConnects ==
    /\ api.pc = "recv"
    /\ ApiQueue # <<>>
    /\ api' = [api EXCEPT !.pc = "connect", !.request = Some(Head(ApiQueue)), !.attempt = 0,
                          !.requests = @ + 1]
    /\ UNCHANGED connection_pool
    /\ ApiStep("recv", <<Head(ApiQueue)>>, Some(Head(ApiQueue)))

\* api.recv().await gives the oldest request; connection_pool.entry(url) is
\* Occupied or Vacant
ApiRecv ==
    /\ api.pc = "recv"
    /\ ApiQueue # <<>>
    /\ api' = [api EXCEPT !.pc = IF Head(ApiQueue).url \in DOMAIN connection_pool
                                 THEN "call" ELSE "connect",
                          !.request = Some(Head(ApiQueue)),
                          !.attempt = 0,
                          !.requests = @ + 1]
    /\ UNCHANGED connection_pool
    /\ ApiStep("recv", <<Head(ApiQueue)>>, Some(Head(ApiQueue)))

\* api.recv().await gives None: the sender is dropped and the channel is
\* empty, the loop ends
ApiClosed ==
    /\ api.pc = "recv"
    /\ api.closed
    /\ ApiQueue = <<>>
    /\ api' = [api EXCEPT !.pc = "done"]
    /\ UNCHANGED connection_pool
    /\ ApiStep("recv", <<>>, None)

\* new_client_fn: one build().await of its loop completes; on Ok the client
\* is returned and entry.insert(api) caches it
ApiConnect(result) ==
    /\ api.pc = "connect"
    /\ LET url == Unwrap(api.request).url
           client == api.opened + 1
       IN  IF result = Ok
           THEN /\ connection_pool' = MapInsert(connection_pool, url, client)
                /\ api' = [api EXCEPT !.pc = "call", !.attempt = @ + 1, !.opened = client]
           ELSE /\ api' = [api EXCEPT !.pc = "sleep", !.attempt = @ + 1]
                /\ UNCHANGED connection_pool
    /\ ApiStep("build", <<Unwrap(api.request).url>>, result)

\* An api_handler_task that gives up a request whose client cannot be opened
\* without answering it.
ApiSleep_NoAnswer ==
    /\ api.pc = "sleep"
    /\ IF api.attempt < RETRY_COUNT
       THEN api' = [api EXCEPT !.pc = "connect"]
       ELSE api' = [api EXCEPT !.pc = "recv", !.request = None]
    /\ UNCHANGED connection_pool
    /\ ApiStep("sleep", <<Unwrap(api.request).url>>, None)

\* new_client_fn: the sleep after a failed attempt ends; the loop goes on or,
\* after RETRY_COUNT attempts, returns None: nothing is inserted,
\* connection_pool.get gives None and the request is answered InternalError
ApiSleep ==
    /\ api.pc = "sleep"
    /\ IF api.attempt < RETRY_COUNT
       THEN api' = [api EXCEPT !.pc = "connect"]
       ELSE api' = [api EXCEPT !.pc = "recv",
                               !.request = None,
                               !.answers = Append(@, [request |-> Unwrap(api.request),
                                                       client |-> None,
                                                       response |-> InternalError])]
    /\ UNCHANGED connection_pool
    /\ ApiStep("sleep", <<Unwrap(api.request).url>>, None)

\* connection_pool.get(url) gives the client; the subxt call on it completes
\* and its result is sent on the request's response_sender
ApiCall(response) ==
    /\ api.pc = "call"
    /\ api' = [api EXCEPT !.pc = "recv",
                          !.request = None,
                          !.answers = Append(@, [request |-> Unwrap(api.request),
                                                  client |-> Some(connection_pool[Unwrap(api.request).url]),
                                                  response |-> response])]
    /\ UNCHANGED connection_pool
    /\ ApiStep("call", <<Unwrap(api.request)>>, response)

InitApi ==
    /\ connection_pool = <<>>
    /\ api = [pc |-> "recv", request |-> None, attempt |-> 0, opened |-> 0, requests |-> 0,
              answers |-> <<>>, sent |-> <<>>, closed |-> FALSE]
    /\ call = Call("spawn", <<>>)
    /\ ret = None
    /\ tracker = None
    /\ bytes = None
    /\ per_node = None
    /\ NoStore
    /\ NoMetrics
    /\ NoTracer
    /\ NoSubscription

NextApi ==
    \/ \E request \in Requests : ApiSend(request)
    \/ ApiDrop
    \/ ApiRecv
    \/ ApiClosed
    \/ \E result \in BuildResults : ApiConnect(result)
    \/ ApiSleep
    \/ \E response \in Responses : ApiCall(response)

SpecApi == InitApi /\ [][NextApi]_vars

\* The scheduler runs the handler task whenever one of its awaits can complete
SpecApiFair ==
    SpecApi /\ WF_vars(ApiRecv \/ ApiClosed \/ (\E result \in BuildResults : ApiConnect(result))
                         \/ ApiSleep \/ (\E response \in Responses : ApiCall(response)))

\* ------------------------------------------ SubxtWrapper::run_per_node
MaxFailures == 2
MaxHeaders == 2

Headers == 1..MaxHeaders

\* SubxtEvent::NewHead(header)
SubxtNewHead(header) == <<"NewHead", header>>

\* What sub.next().await gives: a header, a subscription error, or the end of
\* the stream
StreamItems == {Some(OkOf(h)) : h \in Headers} \cup {Some(Err("subscription")), None}

PerNodeStep(op, args, result) ==
    /\ call' = Call(op, args)
    /\ ret' = result
    /\ UNCHANGED <<storageVars, info, supVars, subVars, tracker, bytes, connection_pool, api, metricsVars>>

\* The two Err arms: error!("[{}] Disconnected ..") and the 500 ms sleep begins
Disconnected(p) ==
    [p EXCEPT !.pc = "sleep", !.log = Append(@, "Disconnected"), !.failures = @ + 1]

\* ClientBuilder::new().set_url(url).build().await at the top of the loop
PerNodeConnect(result) ==
    /\ per_node.pc = "connect"
    /\ IsErr(result) => per_node.failures < MaxFailures
    /\ per_node' = IF result = Ok
                   THEN [per_node EXCEPT !.pc = "subscribe", !.log = Append(@, "Connected")]
                   ELSE Disconnected(per_node)
    /\ PerNodeStep("build", <<>>, result)

\* A task that gives up when subscribe_blocks fails.
PerNodeSubscribe_GivesUp(result) ==
    /\ per_node.pc = "subscribe"
    /\ IsErr(result) => per_node.failures < MaxFailures
    /\ per_node' = IF result = Ok
                   THEN [per_node EXCEPT !.pc = "next"]
                   ELSE [per_node EXCEPT !.pc = "returned", !.log = Append(@, "Disconnected"),
                                         !.failures = @ + 1]
    /\ PerNodeStep("subscribe_blocks", <<>>, result)

\* api.client.rpc().subscribe_blocks().await
PerNodeSubscribe(result) ==
    /\ per_node.pc = "subscribe"
    /\ IsErr(result) => per_node.failures < MaxFailures
    /\ per_node' = IF result = Ok
                   THEN [per_node EXCEPT !.pc = "next"]
                   ELSE Disconnected(per_node)
    /\ PerNodeStep("subscribe_blocks", <<>>, result)

\* the sleep ends: info!("[{}] retrying connection ... ") and the loop turns
PerNodeSleep ==
    /\ per_node.pc = "sleep"
    /\ per_node' = [per_node EXCEPT !.pc = "connect", !.log = Append(@, "retrying connection")]
    /\ PerNodeStep("sleep", <<>>, None)

\* while let Some(ev_ctx) = sub.next().await { let header = ev_ctx.unwrap(); ..
\* The end of the stream leaves the while loop and the outer loop connects
\* again; a subscription error panics in unwrap
PerNodeNext(item) ==
    /\ per_node.pc = "next"
    /\ (item # None /\ ~IsErr(Unwrap(item))) => Len(per_node.received) < MaxHeaders
    /\ item = None => per_node.failures < MaxFailures
    /\ per_node' =
         IF item = None
         THEN [per_node EXCEPT !.pc = "connect", !.failures = @ + 1]
         ELSE IF IsErr(Unwrap(item))
         THEN [per_node EXCEPT !.pc = "panicked"]
         ELSE [per_node EXCEPT !.pc = "send", !.received = Append(@, Unwrap(item)[2])]
    /\ PerNodeStep("next", <<>>, item)

\* update_channel.send(SubxtEvent::NewHead(header)).await.unwrap(): the send
\* completes when the bounded queue has room, or fails when the consumer has
\* dropped its receiver
PerNodeSend ==
    /\ per_node.pc = "send"
    /\ ~per_node.receiver \/ Len(per_node.queue) < MaxMsgQueueSize
    /\ LET header == per_node.received[Len(per_node.received)]
       IN  IF per_node.receiver
           THEN /\ per_node' = [per_node EXCEPT !.pc = "next",
                                                !.queue = Append(@, SubxtNewHead(header)),
                                                !.sent = Append(@, SubxtNewHead(header))]
                /\ PerNodeStep("send", <<header>>, Ok)
           ELSE /\ per_node' = [per_node EXCEPT !.pc = "panicked"]
                /\ PerNodeStep("send", <<header>>, Err("SendError"))

\* The consumer takes the next event from its Receiver<SubxtEvent>
PerNodeConsumerRecv ==
    /\ per_node.receiver
    /\ per_node.queue # <<>>
    /\ per_node' = [per_node EXCEPT !.queue = Tail(@),
                                    !.delivered = Append(@, Head(per_node.queue))]
    /\ PerNodeStep("consumer_recv", <<>>, Some(Head(per_node.queue)))

\* The consumer drops its receiver
PerNodeConsumerDrop ==
    /\ per_node.receiver
    /\ per_node' = [per_node EXCEPT !.receiver = FALSE, !.queue = <<>>]
    /\ PerNodeStep("consumer_drop", <<>>, None)

\* run_per_consumer has spawned run_per_node(update_channel, url)
InitPerNode ==
    /\ per_node = [pc |-> "connect", log |-> <<>>, failures |-> 0, received |-> <<>>,
                   queue |-> <<>>, receiver |-> TRUE, sent |-> <<>>, delivered |-> <<>>]
    /\ call = Call("spawn", <<>>)
    /\ ret = None
    /\ tracker = None
    /\ bytes = None
    /\ connection_pool = <<>>
    /\ api = None
    /\ NoStore
    /\ NoMetrics
    /\ NoTracer
    /\ NoSubscription

NextPerNode ==
    \/ \E result \in BuildResults : PerNodeConnect(result)
    \/ \E result \in {Ok, Err("subscribe_blocks")} : PerNodeSubscribe(result)
    \/ PerNodeSleep
    \/ \E item \in StreamItems : PerNodeNext(item)
    \/ PerNodeSend
    \/ PerNodeConsumerRecv
    \/ PerNodeConsumerDrop

SpecPerNode == InitPerNode /\ [][NextPerNode]_vars

\* ------------------------------------------------- Metrics (pc/prometheus.rs)
MaxRegistered == 2
MaxVotes == 2
MaxDisputes == 3

\* The prometheus_endpoint::register calls of register_metrics in the order they
\* are evaluated: the field the collector is stored in and the name in its Opts
Registrations ==
    << [field |-> "disputed_count",      name |-> "pc_disputed_count"],
       [field |-> "concluded_valid",     name |-> "pc_disputed_valid_count"],
       [field |-> "concluded_invalid",   name |-> "pc_disputed_invalid_count"],
       [field |-> "resolution_time",     name |-> "pc_block_time"],
       [field |-> "backed_count",        name |-> "pc_backed_count"],
       [field |-> "skipped_slots",       name |-> "pc_skipped_slots"],
       [field |-> "included_count",      name |-> "pc_included_count"],
       [field |-> "block_times",         name |-> "pc_block_time"],
       [field |-> "slow_avail_count",    name |-> "pc_slow_available_count"],
       [field |-> "low_bitfields_count", name |-> "pc_low_bitfields_count"],
       [field |-> "bitfields",           name |-> "pc_bitfields_count"],
       [field |-> "included_times",      name |-> "pc_included_time"] >>

\* prometheus_endpoint::register(metric, registry): the registry refuses a
\* collector whose name it already holds
Register(names, name) ==
    IF name \in names
    THEN [names |-> names, ret |-> Err("AlreadyReg")]
    ELSE [names |-> names \cup {name}, ret |-> Ok]

\* The disputes counters of one parachain_id label start at 0
DisputesMetricsNew ==
    [disputed_count |-> [p \in ParaIds |-> 0],
     concluded_valid |-> [p \in ParaIds |-> 0],
     concluded_invalid |-> [p \in ParaIds |-> 0],
     resolution_time |-> [p \in ParaIds |-> <<>>]]

\* Metrics(Option<MetricsInner>); Metrics::default() is Metrics(None)
Metrics(inner) == <<"Metrics", inner>>

\* register_metrics from its i-th register call on: each `?` returns the first
\* error, and the calls before it have already changed the registry
RECURSIVE RegisterFrom(_, _)
RegisterFrom(names, i) ==
    IF i > Len(Registrations)
    THEN [names |-> names, ret |-> OkOf(Metrics(Some(DisputesMetricsNew)))]
    ELSE LET r == Register(names, Registrations[i].name)
         IN  IF IsErr(r.ret) THEN r ELSE RegisterFrom(r.names, i + 1)

register_metrics(names) == RegisterFrom(names, 1)

\* on_disputed(&self, dispute_outcome, para_id)
on_disputed_TieValid(m, dispute_outcome, para_id) ==
    IF m[2] = None
    THEN m
    ELSE LET d == Unwrap(m[2])
             d1 == [d EXCEPT !.disputed_count[para_id] = @ + 1]
             d2 == IF dispute_outcome.voted_for >= dispute_outcome.voted_against
                   THEN [d1 EXCEPT !.concluded_valid[para_id] = @ + 1]
                   ELSE [d1 EXCEPT !.concluded_invalid[para_id] = @ + 1]
             d3 == IF dispute_outcome.resolve_time # None
                   THEN [d2 EXCEPT !.resolution_time[para_id] =
                                       Append(@, Unwrap(dispute_outcome.resolve_time))]
                   ELSE d2
         IN  Metrics(Some(d3))

on_disputed(m, dispute_outcome, para_id) ==
    IF m[2] = None
    THEN m
    ELSE LET d == Unwrap(m[2])
             d1 == [d EXCEPT !.disputed_count[para_id] = @ + 1]
             d2 == IF dispute_outcome.voted_for > dispute_outcome.voted_against
                   THEN [d1 EXCEPT !.concluded_valid[para_id] = @ + 1]
                   ELSE [d1 EXCEPT !.concluded_invalid[para_id] = @ + 1]
             d3 == IF dispute_outcome.resolve_time # None
                   THEN [d2 EXCEPT !.resolution_time[para_id] =
                                       Append(@, Unwrap(dispute_outcome.resolve_time))]
                   ELSE d2
         IN  Metrics(Some(d3))

\* DisputesOutcome, the fields on_disputed reads
DisputesOutcomes ==
    [voted_for : 0..MaxVotes, voted_against : 0..MaxVotes, resolve_time : {None, Some(1)}]

MetricsStep(op, args, result) ==
    /\ call' = Call(op, args)
    /\ ret' = result
    /\ UNCHANGED <<storageVars, info, supVars, subVars, tracker, bytes, connection_pool, api,
                   per_node>>

\* run_prometheus_endpoint: register_metrics(&prometheus_registry)?, and the
\* caller stores the Metrics it returns
RegisterMetricsStep ==
    /\ call.op = "new_custom"
    /\ LET r == register_metrics(registry)
       IN  /\ registry' = r.names
           /\ metrics' = IF IsErr(r.ret) THEN metrics ELSE r.ret[2]
           /\ MetricsStep("register_metrics", <<registry>>, r.ret)

\* The names other collectors may have put into the registry handed to
\* register_metrics; run_prometheus_endpoint hands it a new one
RegistryNames ==
    {Registrations[i].name : i \in DOMAIN Registrations} \cup {"substrate_build_info"}

InitRegister ==
    /\ registry \in {names \in SUBSET RegistryNames : Cardinality(names) <= MaxRegistered}
    /\ metrics = Metrics(None)
    /\ call = Call("new_custom", <<>>)
    /\ ret = None
    /\ tracker = None
    /\ bytes = None
    /\ connection_pool = <<>>
    /\ api = None
    /\ per_node = None
    /\ NoStore
    /\ NoTracer
    /\ NoSubscription

NextRegister == RegisterMetricsStep

SpecRegister == InitRegister /\ [][NextRegister]_vars

\* A tracker calls on_disputed on its Metrics
OnDisputedStep(dispute_outcome, para_id) ==
    /\ metrics[2] # None =>
         \A p \in ParaIds : Unwrap(metrics[2]).disputed_count[p] < MaxDisputes
    /\ metrics' = on_disputed(metrics, dispute_outcome, para_id)
    /\ MetricsStep("on_disputed", <<dispute_outcome, para_id>>, None)
    /\ UNCHANGED registry

\* The Metrics a tracker holds: Metrics::default() without --prometheus, and
\* otherwise the collectors register_metrics returns, all at zero
InitDisputes ==
    /\ metrics \in {Metrics(None), Metrics(Some(DisputesMetricsNew))}
    /\ registry = None
    /\ call = Call("new", <<>>)
    /\ ret = None
    /\ tracker = None
    /\ bytes = None
    /\ connection_pool = <<>>
    /\ api = None
    /\ per_node = None
    /\ NoStore
    /\ NoTracer
    /\ NoSubscription

NextDisputes ==
    \E dispute_outcome \in DisputesOutcomes, para_id \in ParaIds :
      OnDisputedStep(dispute_outcome, para_id)

SpecDisputes == InitDisputes /\ [][NextDisputes]_vars

\* ================================================= records store properties
\* The store under test
Store == IF plain # None THEN Unwrap(plain) ELSE Unwrap(prefixed)

Buckets(s) == DOMAIN s.ephemeral_records

\* The key and the entry passed to the last insert / replace / *_prefix call
CallKey(c) == IF c.op \in {"insert", "replace"} THEN c.args[1] ELSE c.args[2]
CallEntry(c) == IF c.op \in {"insert", "replace"} THEN c.args[2] ELSE c.args[3]

\* The last call pruned a bucket that listed key / the bucket of block b
PrunedListing(key) == pruned # None /\ key \in Unwrap(pruned).entries
PrunedBlock(b) == pruned # None /\ Unwrap(pruned).oldest_block = b

\* The last call was a replace or replace_prefix on key that returned Some(old)
Replaced(key) ==
    /\ call.op \in {"replace", "replace_prefix"}
    /\ CallKey(call) = key
    /\ ret # None

\* C1: on the plain store an insert of a key that is already present returns an
\* error and leaves the store unchanged: get(k), len(), the block buckets and
\* last_block are what they were, and nothing is pruned.
C1_DuplicateInsertRejected ==
    [][ (plain # None /\ call'.op = "insert") =>
          LET s == Unwrap(plain)
              t == Unwrap(plain')
              key == CallKey(call')
          IN  key \in PlainKeys(s) =>
                /\ IsErr(ret')
                /\ PlainGet(t, key) = PlainGet(s, key)
                /\ PlainLen(t) = PlainLen(s)
                /\ t.ephemeral_records = s.ephemeral_records
                /\ t.last_block = s.last_block
                /\ t = s
                /\ pruned' = None ]_vars

\* a rejected insert of an entry that differs from the stored one
C1_Witness ==
    /\ plain # None
    /\ call.op = "insert"
    /\ IsErr(ret)
    /\ PlainGet(Unwrap(plain), CallKey(call)) \notin {None, Some(CallEntry(call))}

\* C2: the bucket a prune removes is the one with the smallest block number of
\* the populated buckets; with max_blocks = 1, an insert at a block higher than
\* the stored one removes the keys of the lower block and keeps the new key.
C2_PruneRemovesOldest ==
    /\ pruned # None => \A b \in Buckets(Store) : Unwrap(pruned).oldest_block < b
    /\ ( /\ plain # None
         /\ Unwrap(plain).config.max_blocks = 1
         /\ call.op = "insert"
         /\ ret = Ok
         /\ pruned # None
         /\ \A b \in Buckets(Unwrap(plain)) \cup {Unwrap(pruned).oldest_block} :
              b <= block_number(CallEntry(call)) )
       => /\ PlainGet(Unwrap(plain), CallKey(call)) = Some(CallEntry(call))
          /\ \A k \in PlainKeys(Unwrap(plain)) :
               block_number(Unwrap(plain).direct_records[k]) = block_number(CallEntry(call))

\* C3: after every operation on either store at most max_blocks block buckets
\* are populated.
C3_BucketsBounded == Cardinality(Buckets(Store)) <= Store.config.max_blocks

\* a call pruned a bucket and left the store with max_blocks >= 1 buckets
C3_Witness ==
    /\ pruned # None
    /\ Store.config.max_blocks >= 1
    /\ Cardinality(Buckets(Store)) = Store.config.max_blocks

C5_ReplaceSemantics ==
    [][ /\ (plain # None /\ call'.op = "replace") =>
             LET s == Unwrap(plain)
                 t == Unwrap(plain')
                 k == CallKey(call')
             IN  IF PlainGet(s, k) # None
                 THEN ret' = PlainGet(s, k) /\ PlainGet(t, k) = Some(CallEntry(call'))
                 ELSE /\ ret' = None
                      /\ PlainGet(t, k) = None
                      /\ PlainLen(t) = PlainLen(s)
                      /\ t = s
        /\ (prefixed # None /\ call'.op = "replace") =>
             LET s == Unwrap(prefixed)
                 t == Unwrap(prefixed')
                 k == CallKey(call')
             IN  IF PrefixedGet(s, iter_order, k) # None
                 THEN /\ ret' = PrefixedGet(s, iter_order, k)
                      /\ PrefixedGet(t, iter_order', k) = Some(CallEntry(call'))
                 ELSE /\ ret' = None
                      /\ PrefixedGet(t, iter_order', k) = None
                      /\ PrefixedLen(t) = PrefixedLen(s)
                      /\ t = s
        /\ (prefixed # None /\ call'.op = "replace_prefix") =>
             LET s == Unwrap(prefixed)
                 t == Unwrap(prefixed')
                 p == call'.args[1]
                 k == CallKey(call')
             IN  IF PrefixedGetPrefix(s, p, k) # None
                 THEN /\ ret' = PrefixedGetPrefix(s, p, k)
                      /\ PrefixedGetPrefix(t, p, k) = Some(CallEntry(call'))
                 ELSE /\ ret' = None
                      /\ PrefixedGetPrefix(t, p, k) = None
                      /\ PrefixedLen(t) = PrefixedLen(s)
                      /\ t = s
      ]_vars

\* a replace returned an old entry that differs from the one now stored
C5_Witness ==
    /\ plain # None
    /\ call.op = "replace"
    /\ ret # None
    /\ PlainGet(Unwrap(plain), CallKey(call)) = Some(CallEntry(call))
    /\ ret # Some(CallEntry(call))

\* C7: prefixed_keys(p) is empty for a prefix never used, gains a key only by a
\* successful insert_prefix(p, k, _), and is at every moment exactly the set of
\* keys k for which get_prefix(p, k) returns an entry.
C7_PrefixedKeysExact ==
    /\ prefixed # None => \A p \in Prefixes : PrefixedKeys(Unwrap(prefixed), p) = {}
    /\ [][ prefixed # None => \A p \in Prefixes :
             LET s == Unwrap(prefixed)
                 t == Unwrap(prefixed')
             IN  /\ \A k \in PrefixedKeys(t, p) \ PrefixedKeys(s, p) :
                      /\ call'.op = "insert_prefix"
                      /\ call'.args[1] = p
                      /\ CallKey(call') = k
                      /\ ret' = Ok
                 /\ PrefixedKeys(t, p) = {k \in Keys : PrefixedGetPrefix(t, p, k) # None}
         ]_vars

\* the two prefixes hold different, non-empty key sets
C7_Witness ==
    /\ prefixed # None
    /\ PrefixedKeys(Unwrap(prefixed), 1) = {1, 2}
    /\ PrefixedKeys(Unwrap(prefixed), 2) = {2}

\* C8: insert_prefix(p, k, e) fails exactly when k is already stored under p,
\* whatever the other prefixes hold, and a failed insert_prefix changes neither
\* the stored entries nor the block buckets.
C8_InsertPrefixDuplicateScope ==
    [][ (prefixed # None /\ call'.op = "insert_prefix") =>
          LET s == Unwrap(prefixed)
              t == Unwrap(prefixed')
              p == call'.args[1]
              k == CallKey(call')
          IN  /\ IsErr(ret') <=> PrefixedGetPrefix(s, p, k) # None
              /\ IsErr(ret') =>
                   /\ \A q \in Prefixes, j \in Keys :
                        PrefixedGetPrefix(t, q, j) = PrefixedGetPrefix(s, q, j)
                   /\ t.ephemeral_records = s.ephemeral_records
                   /\ t = s
                   /\ pruned' = None
      ]_vars

\* a key stored under both prefixes, and the last insert_prefix of it rejected
C8_Witness ==
    /\ prefixed # None
    /\ call.op = "insert_prefix"
    /\ IsErr(ret)
    /\ PrefixedGetPrefix(Unwrap(prefixed), 1, CallKey(call)) # None
    /\ PrefixedGetPrefix(Unwrap(prefixed), 2, CallKey(call)) # None

\* C6: in test_prune (distinct keys, non-decreasing block numbers, per_block
\* keys in each block, more blocks than max_blocks), after the last insert
\* len() = max_blocks * per_block and the keys kept are those of the
\* max_blocks highest blocks.
C6_TestPruneKeepsNewest ==
    (test # None /\ Unwrap(test).idx = Unwrap(test).total) =>
      LET s == Unwrap(plain)
          n == Unwrap(test).per_block
          blocks == Unwrap(test).total \div n
      IN  /\ PlainLen(s) = s.config.max_blocks * n
          /\ PlainKeys(s) = {k \in 0..(Unwrap(test).total - 1) :
                               k \div n >= blocks - s.config.max_blocks}

\* ====================================================== info properties
\* C9: maybe_reset sets the state to Idle and clears candidate and
\* candidate_hash when the state is Included, and leaves the three unchanged
\* in every other state.
C9_MaybeResetIffIncluded ==
    [][ call'.op = "maybe_reset" =>
          IF info.state = "Included"
          THEN /\ info'.state = "Idle"
               /\ info'.candidate = None
               /\ info'.candidate_hash = None
          ELSE /\ info'.state = info.state
               /\ info'.candidate = info.candidate
               /\ info'.candidate_hash = info.candidate_hash ]_vars

\* maybe_reset was called on a backed candidate and kept it
C9_Witness ==
    /\ call.op = "maybe_reset"
    /\ is_backed(info)
    /\ info.candidate # None
    /\ info.candidate_hash # None

\* C10: with max_availability_bits = 200, is_data_available() is false at
\* current_availability_bits = 133 and true at 134.
C10_AvailabilityAt200 ==
    info.max_availability_bits = 200 =>
      /\ info.current_availability_bits = 133 => ~is_data_available(info)
      /\ info.current_availability_bits = 134 => is_data_available(info)

\* C11: for every value of the two counters is_data_available() is true
\* exactly when current_availability_bits > (max_availability_bits / 3) * 2
\* computed in unbounded integers with truncating division, and the product
\* stays within the width.
C11_DataAvailableFormula ==
    call.op = "is_data_available" =>
      /\ (info.max_availability_bits \div 3) * 2 < Modulus
      /\ ret = Some(info.current_availability_bits > (info.max_availability_bits \div 3) * 2)

\* available with the least sufficient count, at a maximum above half the
\* width's range that is not a multiple of three
C11_Witness ==
    /\ call.op = "is_data_available"
    /\ ret = Some(TRUE)
    /\ info.max_availability_bits * 2 >= Modulus
    /\ info.max_availability_bits % 3 = 2
    /\ info.current_availability_bits = (info.max_availability_bits \div 3) * 2 + 1

\* C12: is_bitfield_propagation_low() is true exactly when
\* max_availability_bits > 0, the state is not Idle and
\* bitfield_count <= (max_availability_bits / 3) * 2 with truncating division;
\* it is false in state Idle whatever the counters are.
C12_PropagationLowFormula ==
    call.op = "is_bitfield_propagation_low" =>
      /\ ret = Some( /\ info.max_availability_bits > 0
                     /\ info.state # "Idle"
                     /\ info.bitfield_count <= (info.max_availability_bits \div 3) * 2 )
      /\ info.state = "Idle" => ret = Some(FALSE)

\* not low in state Idle although the count is below the threshold
C12_Witness ==
    /\ call.op = "is_bitfield_propagation_low"
    /\ ret = Some(FALSE)
    /\ info.state = "Idle"
    /\ info.max_availability_bits > 0
    /\ info.bitfield_count < (info.max_availability_bits \div 3) * 2

\* ============================================ parachain tracer properties
\* C13: in the broadcast supervisor, after the handling of a NewHead that
\* raises best_known_block, every para_id still in trackers has a last_blocks
\* entry with best_known_block - last_blocks[para_id] <= max_parachain_stall.
C13_NoStalledTrackerAfterRaise ==
    [][ (call'.op = "NewHead" /\ best_known_block' > best_known_block) =>
          \A p \in DOMAIN trackers' :
            /\ p \in DOMAIN last_blocks'
            /\ best_known_block' - last_blocks'[p] <= supervisor'.max_stall ]_vars

\* a raising head of one parachain left the other one, stalled for exactly
\* max_parachain_stall > 0 blocks, in trackers
C13_Witness ==
    /\ call.op = "NewHead"
    /\ call.args[3]
    /\ supervisor.max_stall > 0
    /\ \E p \in DOMAIN trackers :
         /\ p # call.args[1]
         /\ best_known_block - last_blocks[p] = supervisor.max_stall

\* C14: when a NewHead raises best_known_block, a tracked para_id is evicted
\* exactly when best_known_block - last_blocks[para_id] > max_parachain_stall,
\* with last_blocks as updated by that head; the parachain that sent the head
\* keeps its tracker, nothing is added, and an evicted para_id is in neither
\* trackers nor last_blocks.
C14_EvictedIffStalled ==
    [][ (call'.op = "NewHead" /\ best_known_block' > best_known_block) =>
          /\ call'.args[1] \in DOMAIN trackers'
          /\ DOMAIN trackers' \subseteq DOMAIN trackers
          /\ DOMAIN last_blocks' = DOMAIN trackers'
          /\ \A p \in DOMAIN trackers :
               LET last_block == IF p = call'.args[1] THEN call'.args[2] ELSE last_blocks[p]
               IN  (p \notin DOMAIN trackers')
                     <=> (best_known_block' - last_block > supervisor.max_stall) ]_vars

\* a raising head evicted the other parachain and its tracker's sender is
\* dropped, while the sender of the head is still tracked
C14_Witness ==
    /\ call.op = "NewHead"
    /\ call.args[3]
    /\ DOMAIN trackers = {call.args[1]}
    /\ \E u \in DOMAIN futures :
         /\ futures[u].para_id # call.args[1]
         /\ ~futures[u].from_collector.sender
         /\ best_known_block - Head(futures[u].sent)[3] > supervisor.max_stall

\* h is an interleaving of a and b that keeps the order of each
RECURSIVE IsMerge(_, _, _)
IsMerge(h, a, b) ==
    IF h = <<>> THEN a = <<>> /\ b = <<>>
    ELSE \/ a # <<>> /\ Head(a) = Head(h) /\ IsMerge(Tail(h), Tail(a), b)
         \/ b # <<>> /\ Head(b) = Head(h) /\ IsMerge(Tail(h), a, Tail(b))

\* What tracker f has taken from each lane of its channel
TakenNormal(f) == SubSeq(f.sent, 1, Len(f.sent) - Len(f.from_collector.normal))
TakenPriority(f) ==
    SubSeq(f.sent_priority, 1, Len(f.sent_priority) - Len(f.from_collector.priority))

TrackerInOrder(f) ==
    /\ f.from_collector.normal =
         SubSeq(f.sent, Len(f.sent) - Len(f.from_collector.normal) + 1, Len(f.sent))
    /\ f.from_collector.priority =
         SubSeq(f.sent_priority,
                Len(f.sent_priority) - Len(f.from_collector.priority) + 1,
                Len(f.sent_priority))
    /\ IsMerge(f.handled, TakenNormal(f), TakenPriority(f))

TrackerStopsOnce(f) ==
    /\ \A i \in 1..Len(f.handled) : f.handled[i] = Termination => i = Len(f.handled)
    /\ f.pc = "recv" => f.summaries = 0 /\ \A i \in 1..Len(f.handled) : f.handled[i] # Termination
    /\ f.pc = "summary" =>
         /\ f.summaries = 0
         /\ \/ f.handled # <<>> /\ f.handled[Len(f.handled)] = Termination
            \/ /\ ~f.from_collector.sender
               /\ f.from_collector.normal = <<>>
               /\ f.from_collector.priority = <<>>
    /\ f.pc = "done" =>
         /\ f.summaries = 1
         /\ \/ f.handled # <<>> /\ f.handled[Len(f.handled)] = Termination
            \/ Len(f.handled) = Len(f.sent) + Len(f.sent_priority)

\* C20: a tracker task handles the events of its channel in the order of
\* each lane, losing and repeating none, until it receives Termination or
\* finds the channel closed and empty; it then produces its summary exactly
\* once, handles no further event and ends.  A tracker whose sender was
\* dropped eventually ends, having handled every event queued before (unless
\* a Termination among them stopped it first).
C20_TrackerRunsToSummary ==
    /\ [](\A t \in DOMAIN futures : TrackerInOrder(futures[t]) /\ TrackerStopsOnce(futures[t]))
    /\ [][ \A t \in DOMAIN futures :
             futures[t].pc # "recv" =>
               /\ futures'[t].handled = futures[t].handled
               /\ futures'[t].pc # "recv"
               /\ futures'[t].summaries >= futures[t].summaries ]_vars
    /\ \A t \in 1..MaxTasks :
         (t \in DOMAIN futures /\ ~futures[t].from_collector.sender)
           ~> (t \in DOMAIN futures /\ futures[t].pc = "done")

\* an evicted tracker that ended after handling the two heads queued for it
C20_Witness ==
    \E t \in DOMAIN futures :
      /\ futures[t].pc = "done"
      /\ futures[t].summaries = 1
      /\ ~futures[t].from_collector.sender
      /\ Len(futures[t].handled) = 2
      /\ futures[t].handled = futures[t].sent
      /\ t \notin {trackers[p] : p \in DOMAIN trackers}
      /\ supervisor.pc = "select"

\* ===================================== chain-head subscription properties
\* s is a prefix / a suffix of u
IsPrefix(s, u) == Len(s) <= Len(u) /\ s = SubSeq(u, 1, Len(s))
IsSuffix(s, u) == Len(s) <= Len(u) /\ s = SubSeq(u, Len(u) - Len(s) + 1, Len(u))

\* The emits and unpins the task made for the k-th follow event, in order
LogOf(k) == SelectSeq(follow.log, LAMBDA e : e[2] = k)

\* The k-th follow event has been handled to its end
Completed(k) == k < Len(follow.delivered) \/ (k = Len(follow.delivered) /\ node.pc = "select")

\* What the spec asks for a Finalized(f, p) delivered as the k-th event
FinalizedLog(k, f, p) ==
    [i \in 1..Len(f) |-> <<"emit", k, NewFinalizedHead(f[i])>>]
      \o [i \in 1..Len(f) |-> <<"unpin", k, f[i]>>]
      \o [i \in 1..Len(p) |-> <<"unpin", k, p[i]>>]

\* C15: for each Finalized follow event the task emits one NewFinalizedHead
\* per finalized hash in list order, and after all of them it unpins every
\* hash of the finalized list and then of the pruned list; no unpin of the
\* event comes before one of its emits.
C15_FinalizedEmitsThenUnpins ==
    \A k \in 1..Len(follow.delivered) :
      follow.delivered[k][1] = "Finalized" =>
        LET expected == FinalizedLog(k, follow.delivered[k][2], follow.delivered[k][3])
        IN  /\ IsPrefix(LogOf(k), expected)
            /\ Completed(k) => LogOf(k) = expected

\* a Finalized event with two finalized hashes and a pruned one, handled to its end
C15_Witness ==
    /\ node.pc = "select"
    /\ follow.delivered = <<Finalized(<<2, 1>>, <<2>>)>>
    /\ Len(follow.log) = 5

\* The head events run_per_node owes for a sequence of follow events
RECURSIVE HeadsFor(_)
HeadsFor(events) ==
    IF events = <<>> THEN <<>>
    ELSE LET e == Head(events)
         IN  (CASE e[1] = "BestBlockChanged" -> <<NewBestHead(e[2])>>
                [] e[1] = "Finalized" -> [i \in 1..Len(e[2]) |-> NewFinalizedHead(e[2][i])]
                [] OTHER -> <<>>)
             \o HeadsFor(Tail(events))

\* The head events put on the outgoing queue so far, in order
Emitted ==
    LET emits == SelectSeq(follow.log, LAMBDA e : e[1] = "emit")
    IN  [i \in 1..Len(emits) |-> emits[i][3]]

\* The head events waiting on the normal lane of the outgoing queue
QueuedHeads == SelectSeq(update_channel.normal, LAMBDA m : m # Heartbeat)

\* C16: the NewBestHead and NewFinalizedHead events put on the outgoing
\* queue are, in order, those owed for the BestBlockChanged and Finalized
\* events received: one NewBestHead(h) per BestBlockChanged(h), nothing for
\* NewBlock, none dropped or repeated while the task runs, and the queue
\* holds the ones not yet taken in that same order.
C16_HeadsInSubscriptionOrder ==
    /\ IsPrefix(Emitted, HeadsFor(follow.delivered))
    /\ node.pc = "select" => Emitted = HeadsFor(follow.delivered)
    /\ node.pc \in {"send_best", "send_finalized"} =>
         IsPrefix(HeadsFor(SubSeq(follow.delivered, 1, Len(follow.delivered) - 1)), Emitted)
    /\ IsSuffix(QueuedHeads, Emitted)
    /\ update_channel.priority = <<>>

\* a best head and then a finalized head, both still queued in that order
C16_Witness ==
    /\ node.pc = "select"
    /\ follow.delivered = <<BestBlockChanged(2), Finalized(<<1>>, <<>>)>>
    /\ QueuedHeads = <<NewBestHead(2), NewFinalizedHead(1)>>

\* C17: a Heartbeat goes to the high-priority lane, so it is never on the
\* normal lane behind head events, and a head event waiting for room in a
\* full queue does not keep the task from its heartbeat tick.
C17_HeartbeatBypassesBackpressure ==
    /\ \A i \in 1..Len(update_channel.normal) : update_channel.normal[i] # Heartbeat
    /\ (node.pc \in {"send_best", "send_finalized"} /\ ~CanSend(update_channel))
         => ENABLED NodeTick

\* C18: once the shutdown signal is broadcast, the task eventually returns.
C18_ShutdownEndsTask ==
    shutdown.sent ~> (node.pc \in {"returned", "exited"})

\* C19: the process exits exactly on a failed subscribe call, a stream error
\* or the end of the stream; Stop, the shutdown signal and a failed send make
\* the task return; a failed unpin does neither.
C19_ExitIffSubscriptionFails ==
    [][ /\ (node.pc # "exited" /\ node'.pc = "exited")
           <=> \/ call'.op = "get_chain_head_subscription" /\ IsErr(ret')
               \/ call'.op = "next" /\ ret' \in StreamFailures
        /\ (call'.op = "next" /\ ret' = Some(Stop)) => node'.pc = "returned"
        /\ call'.op = "shutdown" => node'.pc = "returned"
        /\ (call'.op = "send" /\ IsErr(ret')) => node'.pc = "returned"
        /\ (call'.op = "unpin" /\ IsErr(ret')) => node'.pc \notin {"returned", "exited"}
        /\ node.pc \in {"returned", "exited"} => node'.pc = node.pc ]_vars

\* the task went on to its heartbeat after an unpin of a pruned hash failed
C19_Witness ==
    /\ node.pc = "send_heartbeat"
    /\ follow.delivered = <<Finalized(<<>>, <<1>>)>>
    /\ follow.log = <<<<"unpin", 1, 1>>>>
    /\ ~update_channel.receiver

\* ============================================ tracer properties, continued
\* C21: once the supervisor has received Termination or found its source
\* closed, no tracker sender is left; it returns only when every tracker task
\* it spawned has ended, those of evicted parachains included; and with the
\* tasks scheduled fairly it does return.
C21_SupervisorJoinsAllTrackers ==
    /\ [](supervisor.pc \in {"join", "done"} =>
            /\ trackers = <<>>
            /\ \A u \in DOMAIN futures : ~futures[u].from_collector.sender)
    /\ [](supervisor.pc = "done" => \A u \in DOMAIN futures : futures[u].pc = "done")
    /\ (supervisor.pc = "join") ~> (supervisor.pc = "done")

\* the supervisor returned after two trackers, one of them evicted before the
\* Termination, had both handled their heads and ended
C21_Witness ==
    /\ supervisor.pc = "done"
    /\ Len(futures) = 2
    /\ DOMAIN last_blocks = {2}
    /\ \A u \in DOMAIN futures : futures[u].handled # <<>> /\ futures[u].summaries = 1

\* how many NewSession events there are in a sequence of events
RECURSIVE Sessions(_)
Sessions(h) ==
    IF h = <<>> THEN 0
    ELSE (IF Head(h)[1] = "NewSession" THEN 1 ELSE 0) + Sessions(Tail(h))

\* C23: when the supervisor receives NewSession(idx) it queues one send per
\* tracker of `trackers` as it is at that moment, none twice; each of these
\* sends adds NewSession(idx) once to that tracker's channel and to no other;
\* the map does not change during the fan-out and nothing else sends a
\* NewSession; the loop ends with every send made; and a tracker handles what
\* was forwarded to it in the order it was forwarded, so the NewSession comes
\* after the heads forwarded before it and before those forwarded after it.
C23_NewSessionFanOut ==
    /\ [](supervisor.pc # "panicked")
    /\ [](supervisor.pc \in {"select", "send_head", "send_session", "join", "done"} =>
            /\ supervisor.pc = "select" => supervisor.pending = <<>>
            /\ supervisor.pc = "send_session" =>
                 \A i \in DOMAIN supervisor.pending : supervisor.pending[i] \in DOMAIN trackers
            /\ \A t \in DOMAIN futures :
                 /\ futures[t].sent_priority = <<>>
                 /\ IsPrefix(futures[t].handled, futures[t].sent))
    /\ [][ /\ call'.op = "recv_NewSession" =>
                /\ Len(supervisor'.pending) = Cardinality(DOMAIN trackers)
                /\ {supervisor'.pending[i] : i \in DOMAIN supervisor'.pending} = DOMAIN trackers
                /\ supervisor'.new_head = Some(NewSession(call'.args[1]))
           /\ call'.op = "NewSession" =>
                /\ supervisor'.pending = Tail(supervisor.pending)
                /\ \A t \in DOMAIN futures :
                     futures'[t].sent =
                       IF t = trackers[Head(supervisor.pending)]
                       THEN Append(futures[t].sent, Unwrap(supervisor.new_head))
                       ELSE futures[t].sent
           /\ supervisor.pc = "send_session" => trackers' = trackers
           /\ (supervisor.pc \in {"select", "send_head", "send_session"}
                 /\ call'.op # "NewSession") =>
                \A t \in DOMAIN futures : Sessions(futures'[t].sent) = Sessions(futures[t].sent)
         ]_vars

\* a NewSession fanned out to two trackers, each of which handled it after
\* the head forwarded to it before
C23_Witness ==
    /\ supervisor.pc = "select"
    /\ DOMAIN trackers = {1, 2}
    /\ \A p \in {1, 2} :
         /\ Len(futures[trackers[p]].handled) = 2
         /\ futures[trackers[p]].handled[1][1] = "NewHead"
         /\ futures[trackers[p]].handled[2] = NewSession(1)

\* ============================================ tracker loop properties
\* The calls made while the k-th received event was handled, in order
CallsOf(k) ==
    LET sel == SelectSeq(tracker.log, LAMBDA e : e[1] = k)
    IN  [j \in 1..Len(sel) |-> sel[j][2]]

\* The inject_block calls among them
InjectsOf(k) == SelectSeq(CallsOf(k), LAMBDA c : c[1] = "inject_block")

\* How many forks of the k-th event have been processed
ForksDone(k) ==
    IF k = Len(tracker.received) /\ tracker.pc = "process"
    THEN tracker.i - 1
    ELSE Len(tracker.received[k][2].relay_parent_hashes)

\* Each call is followed by what the outcome of inject_block asks for
ForkCallsInOrder(c) ==
    \A p \in DOMAIN c :
      /\ p = 1 => c[p][1] = "inject_block"
      /\ c[p][1] = "inject_block" => p < Len(c) /\ c[p + 1][1] \in {"progress", "error"}
      /\ c[p][1] = "progress" =>
           /\ c[p - 1][1] = "inject_block"
           /\ p < Len(c)
           /\ c[p + 1][1] \in {"println", "maybe_reset_state"}
      /\ c[p][1] = "println" =>
           /\ tracker.is_cli
           /\ c[p - 1][1] = "progress"
           /\ p < Len(c)
           /\ c[p + 1][1] = "maybe_reset_state"
      /\ c[p][1] = "maybe_reset_state" =>
           /\ c[p - 1][1] \in {"progress", "println"}
           /\ p < Len(c) => c[p + 1][1] = "inject_block"
      /\ c[p][1] = "error" =>
           /\ c[p - 1][1] = "inject_block"
           /\ c[p][2] = c[p - 1][2]
           /\ p < Len(c) => c[p + 1][1] = "inject_block"

\* C22: for a NewHead with relay_parent_hashes [h1..hn] the tracker calls
\* inject_block(hi, relay_parent_number) once per entry, in list order; a
\* successful inject_block is followed by progress and then maybe_reset_state
\* before the next fork; a failed one is followed by the error log only, never
\* by maybe_reset_state, and the loop goes on with the next fork or the next
\* event: the task does not stop.
C22_InjectEachForkInOrder ==
    /\ [](\A k \in DOMAIN tracker.received :
            tracker.received[k][1] = "NewHead" =>
              LET new_head == tracker.received[k][2]
              IN  /\ InjectsOf(k) =
                       [j \in 1..ForksDone(k) |->
                          <<"inject_block", new_head.relay_parent_hashes[j],
                            new_head.relay_parent_number>>]
                  /\ ForkCallsInOrder(CallsOf(k)))
    /\ [][ tracker.pc = "process" =>
             /\ tracker'.pc \in {"process", "recv"}
             /\ tracker'.pc = "process"
                  <=> tracker.i < Len(tracker.received[Len(tracker.received)][2].relay_parent_hashes)
             /\ tracker'.received = tracker.received ]_vars

\* the first fork failed, the second was injected, reported and reset, and
\* the task is back at recv
C22_Witness ==
    /\ tracker.pc = "recv"
    /\ tracker.received = <<NewHeadOf(NewHeadEvent(1, <<1, 2>>))>>
    /\ CallsOf(1) = << <<"inject_block", 1, 1>>, <<"error", 1>>,
                       <<"inject_block", 2, 1>>, <<"progress">>, <<"maybe_reset_state">> >>

\* ============================================ telemetry decoder properties
\* The (action, payload) pairs of an outer array, and its elements
Pairs == 1..(Len(bytes[2]) \div 2)
ActionAt(i) == bytes[2][2 * i - 1].json
PayloadAt(i) == bytes[2][2 * i]
Decoded == call.op = "from_bytes" /\ bytes[1] = "arr"

\* The action codes of the table
KnownCodes == (0..15) \cup {20}
IsCode(a, codes) == a[1] = "num" /\ a[2] \in codes

\* The table's message for an action code
VariantOf(a) ==
    CASE a = 0 -> "Version" [] a = 1 -> "BestBlock" [] a = 2 -> "BestFinalized"
      [] a = 3 -> "AddedNode" [] a = 4 -> "RemovedNode" [] a = 5 -> "LocatedNode"
      [] a = 6 -> "ImportedBlock" [] a = 7 -> "FinalizedBlock" [] a = 8 -> "NodeStatsUpdate"
      [] a = 9 -> "Hardware" [] a = 10 -> "TimeSync" [] a = 11 -> "AddedChain"
      [] a = 12 -> "RemovedChain" [] a = 13 -> "SubscribedTo" [] a = 14 -> "UnsubscribedFrom"
      [] a = 15 -> "Pong" [] a = 20 -> "StaleNode"

\* The table's payload shape for an action code (`x?` is x or null)
PayloadShape(a) ==
    CASE a \in {0, 4, 20} -> T_usize
      [] a = 1 -> Tuple(<<T_u64, T_u64, Option(T_u64)>>)
      [] a = 2 -> Tuple(<<T_u64, T_H256>>)
      [] a = 3 -> T_AddedNode
      [] a = 5 -> Tuple(<<T_usize, T_f32, T_f32, T_String>>)
      [] a = 6 -> Tuple(<<T_usize, Tuple(<<T_u64, T_H256, T_u64, T_u64, Option(T_u64)>>)>>)
      [] a = 7 -> Tuple(<<T_usize, T_u64, T_H256>>)
      [] a = 8 -> Tuple(<<T_usize, Tuple(<<T_u64, T_u64>>)>>)
      [] a = 9 -> Tuple(<<T_usize, Tuple(<<Vec(T_f64), Vec(T_f64), Vec(T_f64)>>)>>)
      [] a = 10 -> T_u64
      [] a = 11 -> Tuple(<<T_String, T_H256, T_usize>>)
      [] a \in {12, 13, 14} -> T_H256
      [] a = 15 -> T_String

Matching(i) == IsCode(ActionAt(i), KnownCodes) /\ HasShape(PayloadShape(ActionAt(i)[2]), PayloadAt(i).json)

\* C24: from_bytes returns an error for an outer array with an odd number of
\* elements.
C24_OddLengthRejected ==
    (Decoded /\ Len(bytes[2]) % 2 = 1) => IsErr(ret)

\* The values of a payload's JSON, read as the table's types
U(j) == j[2]
F(j) == <<"float", j[2]>>
S(j) == j[2]
H(j) == <<"H256", j[2]>>
OptU(j) == IF j = JNull THEN None ELSE Some(U(j))
OptS(j) == IF j = JNull THEN None ELSE Some(S(j))
OptStruct(j) == IF j = JNull THEN None ELSE Some(<<"struct">>)
Floats(j) == [i \in DOMAIN j[2] |-> F(j[2][i])]
\* the k-th element of a JSON array
El(j, k) == j[2][k]

\* The message the table's variant for action a holds when built from the
\* payload p
Expected(a, p) ==
    CASE a = 0 -> [variant |-> "Version", version |-> U(p)]
      [] a = 1 -> [variant |-> "BestBlock", block_number |-> U(El(p, 1)),
                   timestamp |-> U(El(p, 2)), avg_block_time |-> OptU(El(p, 3))]
      [] a = 2 -> [variant |-> "BestFinalized", block_number |-> U(El(p, 1)),
                   block_hash |-> H(El(p, 2))]
      [] a = 3 ->
           [variant |-> "AddedNode",
            node_id |-> U(El(p, 1)),
            details |-> [name |-> S(El(El(p, 2), 1)),
                         implementation |-> S(El(El(p, 2), 2)),
                         version |-> S(El(El(p, 2), 3)),
                         validator |-> OptS(El(El(p, 2), 4)),
                         network_id |-> OptS(El(El(p, 2), 5)),
                         ip |-> OptS(El(El(p, 2), 6)),
                         sysinfo |-> OptStruct(El(El(p, 2), 7))],
            stats |-> [peers |-> U(El(El(p, 3), 1)), txcount |-> U(El(El(p, 3), 2))],
            io |-> [used_state_cache_size |-> Floats(El(El(p, 4), 1))],
            hardware |-> [upload |-> Floats(El(El(p, 5), 1)),
                          download |-> Floats(El(El(p, 5), 2)),
                          chart_stamps |-> Floats(El(El(p, 5), 3))],
            block_details |-> [block |-> [hash |-> H(El(El(p, 6), 2)),
                                          height |-> U(El(El(p, 6), 1))],
                               block_time |-> U(El(El(p, 6), 3)),
                               block_timestamp |-> U(El(El(p, 6), 4)),
                               propagation_time |-> OptU(El(El(p, 6), 5))],
            location |-> [lat |-> F(El(El(p, 7), 1)), long |-> F(El(El(p, 7), 2)),
                          city |-> S(El(El(p, 7), 3))],
            startup_time |-> OptU(El(p, 8)),
            hwbench |-> OptStruct(El(El(p, 2), 8))]
      [] a = 4 -> [variant |-> "RemovedNode", node_id |-> U(p)]
      [] a = 5 -> [variant |-> "LocatedNode", node_id |-> U(El(p, 1)), lat |-> F(El(p, 2)),
                   long |-> F(El(p, 3)), city |-> S(El(p, 4))]
      [] a = 6 -> [variant |-> "ImportedBlock", node_id |-> U(El(p, 1)),
                   block_details |-> [block |-> [hash |-> H(El(El(p, 2), 2)),
                                                 height |-> U(El(El(p, 2), 1))],
                                      block_time |-> U(El(El(p, 2), 3)),
                                      block_timestamp |-> U(El(El(p, 2), 4)),
                                      propagation_time |-> OptU(El(El(p, 2), 5))]]
      [] a = 7 -> [variant |-> "FinalizedBlock", node_id |-> U(El(p, 1)),
                   block_number |-> U(El(p, 2)), block_hash |-> H(El(p, 3))]
      [] a = 8 -> [variant |-> "NodeStatsUpdate", node_id |-> U(El(p, 1)),
                   stats |-> [peers |-> U(El(El(p, 2), 1)), txcount |-> U(El(El(p, 2), 2))]]
      [] a = 9 -> [variant |-> "Hardware", node_id |-> U(El(p, 1)),
                   hardware |-> [upload |-> Floats(El(El(p, 2), 1)),
                                 download |-> Floats(El(El(p, 2), 2)),
                                 chart_stamps |-> Floats(El(El(p, 2), 3))]]
      [] a = 10 -> [variant |-> "TimeSync", time |-> U(p)]
      [] a = 11 -> [variant |-> "AddedChain", name |-> S(El(p, 1)),
                    genesis_hash |-> H(El(p, 2)), node_count |-> U(El(p, 3))]
      [] a = 12 -> [variant |-> "RemovedChain", genesis_hash |-> H(p)]
      [] a = 13 -> [variant |-> "SubscribedTo", genesis_hash |-> H(p)]
      [] a = 14 -> [variant |-> "UnsubscribedFrom", genesis_hash |-> H(p)]
      [] a = 15 -> [variant |-> "Pong", msg |-> S(p)]
      [] a = 20 -> [variant |-> "StaleNode", node_id |-> U(p)]

\* C25: for an outer array [a0,p0,..,a(n-1),p(n-1)] in which every payload
\* has the shape of its (known) action code, from_bytes returns Ok with
\* exactly n messages, the i-th being the variant the table gives for ai,
\* with its fields taken from pi.
C25_MatchingBatchDecodes ==
    (Decoded /\ Len(bytes[2]) % 2 = 0 /\ \A i \in Pairs : Matching(i)) =>
      /\ ret[1] = "Ok"
      /\ Len(ret[2]) = Len(bytes[2]) \div 2
      /\ \A i \in Pairs :
           /\ ret[2][i].variant = VariantOf(ActionAt(i)[2])
           /\ ret[2][i] = Expected(ActionAt(i)[2], PayloadAt(i).json)

\* an ImportedBlock and a BestBlock decoded from one batch, in input order
C25_Witness ==
    /\ Decoded
    /\ Len(bytes[2]) = 4
    /\ ActionAt(1) = JNum(6) /\ Matching(1)
    /\ ActionAt(2) = JNum(1) /\ Matching(2)
    /\ Len(ret[2]) = 2
    /\ ret[2][1].variant = "ImportedBlock"
    /\ ret[2][1].block_details.block.height = 11
    /\ ret[2][2].variant = "BestBlock"
    /\ ret[2][2].avg_block_time = Some(59)

\* An integer action code outside the table
UnknownAt(i) == ActionAt(i)[1] = "num" /\ ActionAt(i)[2] \notin KnownCodes

\* C26: a pair whose action code is an integer outside 0..15 and 20 decodes
\* to UnknownValue with that code and the payload's text unchanged, whatever
\* the payload is; it never makes from_bytes fail, so a batch whose other
\* pairs match their shapes is decoded whole.
C26_UnknownActionNeverFails ==
    (Decoded /\ \A i \in Pairs : Matching(i) \/ UnknownAt(i)) =>
      /\ ret[1] = "Ok"
      /\ Len(ret[2]) = Len(bytes[2]) \div 2
      /\ \A i \in Pairs :
           UnknownAt(i) =>
             ret[2][i] = [variant |-> "UnknownValue", action |-> ActionAt(i)[2],
                          value |-> PayloadAt(i).text]

\* A pair with a known action code whose payload has another shape
MismatchAt(i) == IsCode(ActionAt(i), KnownCodes) /\ ~Matching(i)

\* C27: when some pair of the batch has a known action code and a payload of
\* another shape, from_bytes returns an error, which carries no message, not
\* even those of the pairs decoded before the bad one.
C27_MismatchAbortsBatch ==
    (Decoded /\ \E i \in Pairs : MismatchAt(i)) => IsErr(ret) /\ Len(ret) = 2 /\ ret[2] = "serde_json"

\* a Version decoded first, then a BestBlock payload one element short: an
\* error and nothing else
C27_Witness ==
    /\ Decoded
    /\ Len(bytes[2]) = 4
    /\ ActionAt(1) = JNum(0) /\ Matching(1)
    /\ ActionAt(2) = JNum(1) /\ PayloadAt(2).text = "[14,16]" /\ MismatchAt(2)
    /\ ret = Err("serde_json")

\* ============================================ candidate hash
\* H(descriptor || H(commitments)): the pair stands for the SCALE encoding of
\* (descriptor, hash), which is the two encodings one after the other
CandidateHash(descriptor, commitments) ==
    BlakeTwo256_hash_of(<<descriptor, BlakeTwo256_hash_of(commitments)>>)

\* C28: after set_candidate(c) the stored candidate_hash is
\* H(descriptor || H(commitments)) of c; any backed candidate with the same
\* descriptor and commitments, whatever its validity votes, stores the same
\* hash.
C28_CandidateHashOfDescriptorAndCommitments ==
    call.op = "set_candidate" =>
      LET c == call.args[1]
      IN  /\ info.candidate = Some(c)
          /\ info.candidate_hash =
               Some(CandidateHash(c.candidate.descriptor, c.candidate.commitments))
          /\ \A c2 \in Candidates :
               (c2.candidate = c.candidate)
                 => set_candidate(InfoDefault, c2).candidate_hash = info.candidate_hash

\* a candidate with the votes v2 stored under the hash of (d1, c1) alone
C28_Witness ==
    /\ call.op = "set_candidate"
    /\ call.args[1].validity_votes = "v2"
    /\ info.candidate_hash = Some(CandidateHash("d1", "c1"))
    /\ info.state = "Backed"

\* ============================================ API handler properties
\* The url of the request in hand
ApiUrl == Unwrap(api.request).url

\* C29: the pool holds at most one client per URL and a cached client is
\* never replaced or removed; a client is opened only while serving a request
\* whose URL has no client, at most RETRY_COUNT attempts being made; the
\* client of a successful attempt is cached and answers that request and
\* every later request to the URL; after RETRY_COUNT failed attempts nothing
\* is cached, the request is answered InternalError, as no other request is,
\* and a later request to the URL connects again.
C29_OneClientPerUrl ==
    /\ [](/\ api.pc \in {"connect", "sleep"} =>
               /\ ApiUrl \notin DOMAIN connection_pool
               /\ api.attempt <= RETRY_COUNT
               /\ api.pc = "connect" => api.attempt < RETRY_COUNT
          /\ api.pc = "call" => ApiUrl \in DOMAIN connection_pool
          /\ \A u, v \in DOMAIN connection_pool :
               connection_pool[u] = connection_pool[v] => u = v
          /\ \A i \in DOMAIN api.answers :
               /\ api.answers[i].response = InternalError <=> api.answers[i].client = None
               /\ api.answers[i].client # None =>
                    /\ api.answers[i].request.url \in DOMAIN connection_pool
                    /\ api.answers[i].client = Some(connection_pool[api.answers[i].request.url]))
    /\ [][ /\ \A u \in DOMAIN connection_pool :
                u \in DOMAIN connection_pool' /\ connection_pool'[u] = connection_pool[u]
           /\ connection_pool' # connection_pool =>
                /\ call'.op = "build" /\ ret' = Ok
                /\ DOMAIN connection_pool' = DOMAIN connection_pool \cup {ApiUrl}
                /\ api'.pc = "call"
           /\ (call'.op = "build" /\ ret' = Ok) => ApiUrl \in DOMAIN connection_pool'
           /\ (call'.op = "recv" /\ ret' # None) =>
                api'.pc = IF Unwrap(ret').url \in DOMAIN connection_pool
                          THEN "call" ELSE "connect"
           /\ (call'.op = "sleep" /\ api.attempt = RETRY_COUNT) =>
                /\ connection_pool' = connection_pool
                /\ api'.pc = "recv"
                /\ api'.answers = Append(api.answers, [request |-> Unwrap(api.request),
                                                        client |-> None,
                                                        response |-> InternalError])
           /\ (call'.op = "sleep" /\ api.attempt < RETRY_COUNT) =>
                api'.pc = "connect" /\ api'.answers = api.answers
         ]_vars

\* url 1 failed three times and was answered InternalError; the next request
\* to it connected at the second attempt and the third request reused that
\* client
C29_Witness ==
    /\ api.pc = "recv"
    /\ Len(api.answers) = 3
    /\ \A i \in 1..3 : api.answers[i].request.url = 1
    /\ api.answers[1].response = InternalError
    /\ api.answers[2].client = Some(1)
    /\ api.answers[3].client = Some(1)
    /\ DOMAIN connection_pool = {1}
    /\ api.opened = 1

\* ------------------------------------------------ legacy subscription task
NewHeadsOf(headers) == [i \in DOMAIN headers |-> SubxtNewHead(headers[i])]

FailedToConnectOrSubscribe ==
    /\ call'.op \in {"build", "subscribe_blocks"}
    /\ IsErr(ret')

\* Every header taken from the stream has been sent, in order, except the one
\* the task holds while its send is pending
ForwardedInOrder ==
    LET n == Len(per_node.received)
        due == IF per_node.pc = "send" THEN n - 1 ELSE n
    IN  /\ per_node.sent = NewHeadsOf(SubSeq(per_node.received, 1, due))
        /\ per_node.delivered \o per_node.queue = per_node.sent

\* C30: in run_per_node a failed connection or a failed subscribe_blocks never
\* ends the task: the task logs "Disconnected", sleeps, logs "retrying
\* connection" and connects again, however many failures came before; and while
\* the consumer holds its receiver every header the subscription yields is sent
\* to it as NewHead, in the order received.
C30_RetriesAndForwardsInOrder ==
    /\ [][/\ FailedToConnectOrSubscribe =>
               /\ per_node'.pc = "sleep"
               /\ per_node'.log = Append(per_node.log, "Disconnected")
          /\ per_node.pc = "sleep" /\ per_node'.pc # "sleep" =>
               /\ per_node'.pc = "connect"
               /\ per_node'.log = Append(per_node.log, "retrying connection")
          /\ per_node'.pc = "panicked" /\ per_node.pc # "panicked" =>
               call'.op \in {"next", "send"}]_vars
    /\ [](/\ per_node.pc \in {"connect", "subscribe", "sleep", "next", "send", "panicked"}
          /\ per_node.receiver => ForwardedInOrder)

\* The task failed to connect, then failed to subscribe, retried both times and
\* afterwards delivered two headers in order.
C30_Witness ==
    /\ Len(per_node.log) >= 6
    /\ SubSeq(per_node.log, 1, 4) = <<"Disconnected", "retrying connection",
                                      "Connected", "Disconnected">>
    /\ per_node.delivered = <<SubxtNewHead(2), SubxtNewHead(1)>>

\* ============================================ records store properties, continued
\* The block buckets of store s that list key
BucketsListing(s, key) == {b \in Buckets(s) : key \in s.ephemeral_records[b]}

\* C31: immediately after a successful insert (plain store) or insert_prefix
\* (prefixed store) of key k with entry e, k is listed in exactly one block
\* bucket, that of e's block number, and e is retrievable (get(k) on the plain
\* store, get_prefix(p, k) on the prefixed one), whatever the order of inserts.
C31_InsertedInOneBucket ==
    [][ /\ (plain # None /\ call'.op = "insert" /\ ret' = Ok) =>
             LET t == Unwrap(plain')
                 k == CallKey(call')
                 e == CallEntry(call')
             IN  /\ BucketsListing(t, k) = {block_number(e)}
                 /\ PlainGet(t, k) = Some(e)
        /\ (prefixed # None /\ call'.op = "insert_prefix" /\ ret' = Ok) =>
             LET t == Unwrap(prefixed')
                 k == CallKey(call')
                 e == CallEntry(call')
             IN  /\ BucketsListing(t, k) = {block_number(e)}
                 /\ PrefixedGetPrefix(t, call'.args[1], k) = Some(e)
      ]_vars

\* C34: on the prefixed store a prune of the bucket of block b removes only
\* entries whose block number is b: every entry of another block number stored
\* under any prefix is still returned by get_prefix after the prune, and no
\* bucket lists a key that is stored under no prefix.
C34_PruneRemovesOnlyBlock ==
    [][ (prefixed # None /\ pruned' # None) =>
          LET s == Unwrap(prefixed)
              t == Unwrap(prefixed')
              b == Unwrap(pruned').oldest_block
          IN  /\ \A p \in Prefixes, k \in Keys :
                   ( /\ PrefixedGetPrefix(s, p, k) # None
                     /\ block_number(Unwrap(PrefixedGetPrefix(s, p, k))) # b )
                   => PrefixedGetPrefix(t, p, k) = PrefixedGetPrefix(s, p, k)
              /\ \A c \in Buckets(t) : t.ephemeral_records[c] \subseteq PrefixedKeysAll(t)
      ]_vars

\* C35: replace and replace_prefix change nothing but the entry stored for the
\* key: the block buckets, the stored keys, last_block and every other entry
\* are as before and nothing is pruned.  A prune therefore removes exactly the
\* keys its bucket lists, so a key whose entry was replaced by one of another
\* block number goes with the bucket of the block it was inserted with.
C35_ReplaceKeepsBuckets ==
    [][ /\ (plain # None /\ call'.op = "replace") =>
             LET s == Unwrap(plain)
                 t == Unwrap(plain')
             IN  /\ t.ephemeral_records = s.ephemeral_records
                 /\ PlainKeys(t) = PlainKeys(s)
                 /\ t.last_block = s.last_block
                 /\ \A k \in PlainKeys(s) \ {CallKey(call')} : PlainGet(t, k) = PlainGet(s, k)
                 /\ pruned' = None
        /\ (prefixed # None /\ call'.op \in {"replace", "replace_prefix"}) =>
             LET s == Unwrap(prefixed)
                 t == Unwrap(prefixed')
             IN  /\ t.ephemeral_records = s.ephemeral_records
                 /\ \A p \in Prefixes : PrefixedKeys(t, p) = PrefixedKeys(s, p)
                 /\ t.last_block = s.last_block
                 /\ \A p \in Prefixes, k \in Keys \ {CallKey(call')} :
                      PrefixedGetPrefix(t, p, k) = PrefixedGetPrefix(s, p, k)
                 /\ pruned' = None
        /\ (plain # None /\ pruned' # None) =>
             LET s == Unwrap(plain)
                 t == Unwrap(plain')
             IN  /\ PlainKeys(t) \cap Unwrap(pruned').entries = {}
                 /\ PlainKeys(s) \ Unwrap(pruned').entries \subseteq PlainKeys(t)
        /\ (prefixed # None /\ pruned' # None) =>
             LET s == Unwrap(prefixed)
                 t == Unwrap(prefixed')
             IN  \A p \in Prefixes :
                   /\ PrefixedKeys(t, p) \cap Unwrap(pruned').entries = {}
                   /\ PrefixedKeys(s, p) \ Unwrap(pruned').entries \subseteq PrefixedKeys(t, p)
      ]_vars

\* a replace stored an entry whose block number is not the one of the bucket
\* that lists the key
C35_Witness ==
    /\ plain # None
    /\ call.op = "replace"
    /\ ret # None
    /\ BucketsListing(Unwrap(plain), CallKey(call)) # {}
    /\ block_number(CallEntry(call)) \notin BucketsListing(Unwrap(plain), CallKey(call))

\* ================================================== metrics properties
\* The metric names the spec fixes
ContractualNames ==
    {"pc_backed_count", "pc_skipped_slots", "pc_included_count", "pc_disputed_count",
     "pc_disputed_valid_count", "pc_disputed_invalid_count", "pc_block_time",
     "pc_slow_available_count", "pc_low_bitfields_count", "pc_bitfields_count",
     "pc_included_time"}

\* The names register_metrics registers, in order
RegisteredNames == [i \in DOMAIN Registrations |-> Registrations[i].name]

NameOf(field) ==
    (CHOOSE i \in DOMAIN Registrations : Registrations[i].field = field).name

\* C32: register_metrics registers each metric under a name of the contractual
\* list, no name twice, so that against a new (empty) registry it returns Ok
\* with every name registered; the dispute resolution-time histogram and the
\* block-time histogram have different names.
C32_DistinctContractualNames ==
    (call.op = "register_metrics" /\ call.args[1] = {}) =>
      /\ ~IsErr(ret)
      /\ metrics # Metrics(None)
      /\ registry = {RegisteredNames[i] : i \in DOMAIN RegisteredNames}
      /\ registry \subseteq ContractualNames
      /\ Cardinality(registry) = Len(RegisteredNames)
      /\ NameOf("resolution_time") # NameOf("block_times")

\* The disputes collectors of an enabled Metrics
Disputes(m) == Unwrap(m[2])

\* C40: with metrics enabled, for every parachain_id pc_disputed_count is the
\* sum of pc_disputed_valid_count and pc_disputed_invalid_count after any
\* sequence of on_disputed calls: each call adds one to the disputed counter of
\* its parachain and to exactly one outcome counter, the valid one if and only
\* if voted_for > voted_against, and leaves the other parachains' counters.
C40_DisputedIsValidPlusInvalid ==
    /\ [](metrics[2] # None =>
            \A p \in ParaIds :
              Disputes(metrics).disputed_count[p] =
                Disputes(metrics).concluded_valid[p] + Disputes(metrics).concluded_invalid[p])
    /\ [][(metrics[2] # None /\ call'.op = "on_disputed") =>
            LET d == Disputes(metrics)
                e == Disputes(metrics')
                o == call'.args[1]
                para_id == call'.args[2]
                valid == IF o.voted_for > o.voted_against THEN 1 ELSE 0
            IN  /\ e.disputed_count[para_id] = d.disputed_count[para_id] + 1
                /\ e.concluded_valid[para_id] = d.concluded_valid[para_id] + valid
                /\ e.concluded_invalid[para_id] = d.concluded_invalid[para_id] + (1 - valid)
                /\ \A p \in ParaIds \ {para_id} :
                     /\ e.disputed_count[p] = d.disputed_count[p]
                     /\ e.concluded_valid[p] = d.concluded_valid[p]
                     /\ e.concluded_invalid[p] = d.concluded_invalid[p]]_vars

\* a parachain with a dispute concluded valid and, last, a tie counted invalid
C40_Witness ==
    /\ metrics[2] # None
    /\ call.op = "on_disputed"
    /\ call.args[1].voted_for = call.args[1].voted_against
    /\ Disputes(metrics).concluded_valid[call.args[2]] = 1
    /\ Disputes(metrics).concluded_invalid[call.args[2]] = 1
    /\ Disputes(metrics).disputed_count[call.args[2]] = 2

\* ============================================ subscription properties, continued
\* C33: for an Initialized event the task makes exactly one unpin call, for the
\* event's finalized block hash, and sends nothing on update_channel; whether
\* the unpin succeeds or fails the task is back at its select! with the state
\* it would have had, so the events that follow are handled alike.
C33_InitializedUnpinsOnce ==
    /\ [](\A k \in DOMAIN follow.delivered :
            follow.delivered[k][1] = "Initialized" =>
              LogOf(k) = IF k = Len(follow.delivered) /\ node.pc = "unpin_init"
                         THEN <<>>
                         ELSE << <<"unpin", k, follow.delivered[k][2]>> >>)
    /\ [][node.pc = "unpin_init" /\ node' # node =>
            /\ call' = Call("unpin", <<follow.delivered[Len(follow.delivered)][2]>>)
            /\ node' = [node EXCEPT !.pc = "select"]
            /\ update_channel' = update_channel]_vars

\* the unpin of an Initialized event failed and the task then handled a
\* BestBlockChanged event, announcing its hash
C33_Witness ==
    /\ follow.errors = {1}
    /\ Len(follow.delivered) = 2
    /\ follow.delivered[1][1] = "Initialized"
    /\ follow.delivered[2][1] = "BestBlockChanged"
    /\ node.pc = "select"
    /\ follow.log = << <<"unpin", 1, follow.delivered[1][2]>>,
                       <<"emit", 2, NewBestHead(follow.delivered[2][2])>> >>

\* ============================================ supervisor properties, continued
\* The NewHead events forwarded to tracker task t, in order
HeadsSentTo(t) == SelectSeq(futures[t].sent, LAMBDA m : m[1] = "NewHead")

\* C36: in watch_node_broadcast, whenever the supervisor is back at its select!
\* after an event, trackers and last_blocks hold the same para_ids and
\* last_blocks[para_id] is the relay parent number of the last NewHead forwarded
\* for para_id; best_known_block never decreases; and in every call of
\* evict_stalled max_block is the number of the head just forwarded, at least
\* every last_block, so max_block - last_block does not underflow.
C36_SupervisorMapsAgree ==
    /\ [](supervisor.pc = "select" =>
            /\ DOMAIN trackers = DOMAIN last_blocks
            /\ \A p \in DOMAIN last_blocks :
                 /\ HeadsSentTo(trackers[p]) # <<>>
                 /\ HeadsSentTo(trackers[p])[Len(HeadsSentTo(trackers[p]))] =
                      NewHead(p, last_blocks[p]))
    /\ [][/\ best_known_block' >= best_known_block
          /\ (call'.op = "NewHead" /\ call'.args[3]) =>
               LET lb == MapInsert(last_blocks, call'.args[1], call'.args[2])
               IN  /\ MaxBlockOf(lb) = call'.args[2]
                   /\ best_known_block' = call'.args[2]
                   /\ \A p \in DOMAIN lb : MaxBlockOf(lb) - lb[p] >= 0]_vars

\* a head raised best_known_block, a stalled parachain was evicted and the
\* sender's parachain kept
C36_Witness ==
    /\ supervisor.pc = "select"
    /\ call.op = "NewHead"
    /\ call.args[3]
    /\ DOMAIN last_blocks = {call.args[1]}
    /\ \E t \in DOMAIN futures : futures[t].para_id # call.args[1]
    /\ Len(HeadsSentTo(trackers[call.args[1]])) >= 2

\* Tracker task t has not ended
Running(t) == futures[t].pc # "done"

\* C37: at any time at most one tracker task is running for a para_id: when a
\* NewHead spawns a new tracker for an evicted parachain, the evicted tracker
\* task has already ended.
C37_OneRunningTrackerPerPara ==
    \A t, u \in DOMAIN futures :
      (t # u /\ futures[t].para_id = futures[u].para_id) => ~(Running(t) /\ Running(u))

\* C38: the broadcast supervisor never sends to a tracker task that has ended:
\* a tracker leaves its loop only once the supervisor has dropped its sender, so
\* every tracker in the map is still receiving with its receiver alive and the
\* unwrap on the result of forwarding a NewHead or a NewSession never panics.
C38_ForwardNeverFails ==
    /\ [](supervisor.pc # "direct" =>
            /\ supervisor.pc # "panicked"
            /\ \A p \in DOMAIN trackers :
                 /\ futures[trackers[p]].pc = "recv"
                 /\ futures[trackers[p]].from_collector.receiver
                 /\ futures[trackers[p]].from_collector.sender)
    /\ [][supervisor.pc # "direct" =>
            \A t \in DOMAIN futures :
              (futures[t].pc = "recv" /\ futures'[t].pc # "recv") =>
                ~futures[t].from_collector.sender]_vars

\* an evicted tracker has ended and the supervisor has since forwarded a
\* NewSession to the tracker it still holds
C38_Witness ==
    /\ supervisor.pc = "select"
    /\ call.op = "NewSession"
    /\ \E t \in DOMAIN futures : futures[t].pc = "done"
    /\ \E p \in DOMAIN trackers :
         /\ futures[trackers[p]].sent # <<>>
         /\ futures[trackers[p]].sent[Len(futures[trackers[p]].sent)][1] = "NewSession"

\* ------------------------------------------ API handler properties, continued
\* The requests the handler has answered, in the order of its answers
Answered == [i \in DOMAIN api.answers |-> api.answers[i].request]

\* C39: the handler answers the requests in the order it receives them, each
\* once: while it waits on its channel, or after it has ended, the answered
\* requests are exactly the received ones, and while it serves a request the
\* answered ones are exactly those received before it; an answer is the
\* result of the call on a client or InternalError when no client could be
\* opened; every request sent is eventually answered, and once the senders
\* are dropped the handler ends, having answered every request sent.
C39_EveryRequestAnsweredOnce ==
    /\ [](/\ api.requests <= Len(api.sent)
          /\ api.pc \in {"recv", "done"} =>
               /\ api.request = None
               /\ Answered = SubSeq(api.sent, 1, api.requests)
          /\ api.pc \in {"connect", "sleep", "call"} =>
               /\ api.request = Some(api.sent[api.requests])
               /\ Answered = SubSeq(api.sent, 1, api.requests - 1)
          /\ api.pc = "done" => api.closed /\ Answered = api.sent
          /\ \A i \in DOMAIN api.answers :
               \/ api.answers[i].client # None /\ api.answers[i].response \in Responses
               \/ api.answers[i].client = None /\ api.answers[i].response = InternalError)
    /\ [][api.pc = "done" => api' = api]_vars
    /\ \A i \in 1..MaxRequests : (Len(api.sent) >= i) ~> (Len(api.answers) >= i)
    /\ api.closed ~> (api.pc = "done")

\* Three requests were sent, one of them answered with the call's result and
\* one with InternalError, the senders were dropped while a request was
\* still queued, and the handler has ended
C39_Witness ==
    /\ api.pc = "done"
    /\ Len(api.sent) = MaxRequests
    /\ Answered = api.sent
    /\ \E i \in DOMAIN api.answers : api.answers[i].response = InternalError
    /\ \E i \in DOMAIN api.answers : api.answers[i].response = OkOf("Response")
    /\ \E i \in DOMAIN api.answers : api.answers[i].response = Err("SubxtError")

====
